---- MODULE Spec2Model ----
(***************************************************************************)
(* HealthReference: the evidence-grounded extraction pipeline.             *)
(*   - the model gateway   (lib/services/aiProvider.ts)                    *)
(*   - the analysis stage  (lib/services/aiService.ts)                     *)
(*   - the simplifier      (lib/services/languageSimplifier.ts)            *)
(*   - the endpoint        (app/api/analyze/route.ts) with the searches    *)
(*     of lib/services and the cache of lib/utils/cache.ts                 *)
(* A JavaScript string is a sequence of one-character strings, so that     *)
(* toLowerCase, trim, includes and the edit distance are computed and      *)
(* not assumed.  A JSON object is a record whose DOMAIN holds the keys     *)
(* that are present; `delete o.k` removes k from the DOMAIN.               *)
(***************************************************************************)
EXTENDS Integers, Sequences, FiniteSets, TLC

VARIABLES
  env,                \* process.env: AI_MODEL, GROQ_MODEL and the API key variables
  config,             \* the Partial<AIProviderConfig> of a direct gateway call
  faults,             \* the errors the model providers can answer with in this run
  pc,                 \* position of the caller (direct caller or analyzeHealthPapers)
  selected,           \* generateAIResponse: the resolved AIModel
  fn,                 \* the generateWith* function that is running
  viaGptOss,          \* inside the try of generateWithOpenAIGPTOSS
  modelsToTry,        \* generateWith*: [primary, ...fallbacks]
  i,                  \* generateWith*: loop index (1-based here)
  rateLimitedModels,  \* generateWith*: models that answered with a rate limit
  inFlight,           \* provider requests issued and not yet answered
  calls,              \* provider requests answered during the current gateway call
  gwStatus,           \* idle | running | returned | threw
  gwResult,           \* what generateAIResponse returned or threw
  simOriginal,        \* isActuallySimplified: its argument original
  simSimplified,      \* isActuallySimplified: its argument simplified
  simVerdict,         \* isActuallySimplified: what it returned
  condition,          \* analyzeHealthPapers: its argument condition
  sources,            \* analyzeHealthPapers: the four lists of source documents
  includeBudget,      \* analyzeHealthPapers: its argument includeBudget
  aiCalls,            \* the generateAIResponse calls analyzeHealthPapers has made
  responseText,       \* analyzeHealthPapers: the text of the extraction response
  recommendations,    \* analyzeHealthPapers: the validated recommendations
  analysisMechanisms, \* analyzeHealthPapers: analysis.mechanisms || []
  simplifiedTexts,    \* analyzeHealthPapers: what the simplifier returned
  result,             \* what analyzeHealthPapers returned
  rq,                 \* POST /api/analyze: position of the request handler
  body,               \* POST /api/analyze: the body of the request
  baseCondition,      \* POST /api/analyze: the condition without its cause
  cause,              \* POST /api/analyze: the cause, <<>> for null
  fetches,            \* the searchPubMed, searchGoogleScholar, searchWebContent calls
  cache,              \* lib/utils/cache.ts: the entries of the SimpleCache
  now,                \* Date.now()
  response,           \* POST /api/analyze: the NextResponse it returned
  searches,           \* searchGoogleScholar / searchWebContent calls running side by side
  lastRequestTime,    \* the module variable lastRequestTime of each of the two files
  log                 \* history: the cache.set calls and the outbound requests so far

gwVars == <<selected, fn, viaGptOss, modelsToTry, i, rateLimitedModels,
            inFlight, calls, gwStatus, gwResult>>

simVars == <<simOriginal, simSimplified, simVerdict>>

plVars == <<condition, sources, includeBudget, aiCalls, responseText,
            recommendations, analysisMechanisms, simplifiedTexts, result>>

rtVars == <<rq, body, baseCondition, cause, fetches, cache, now, response>>

srVars == <<searches, lastRequestTime, log>>

-----------------------------------------------------------------------------
(* JavaScript strings *)

\* String.prototype.toLowerCase
ToLowerCase(s) ==
  LET upper == <<"A","B","C","D","E","F","G","H","I","J","K","L","M",
                 "N","O","P","Q","R","S","T","U","V","W","X","Y","Z">>
      lower == <<"a","b","c","d","e","f","g","h","i","j","k","l","m",
                 "n","o","p","q","r","s","t","u","v","w","x","y","z">>
      LowerChar(c) ==
        IF \E k \in 1..26 : upper[k] = c
          THEN lower[CHOOSE k \in 1..26 : upper[k] = c]
          ELSE c
  IN  [k \in 1..Len(s) |-> LowerChar(s[k])]

\* what \s and trim() treat as white space
IsSpace(c) == c \in {" ", "\t", "\n"}

RECURSIVE TrimStart(_)
TrimStart(s) ==
  IF s # <<>> /\ IsSpace(Head(s)) THEN TrimStart(Tail(s)) ELSE s

RECURSIVE TrimEnd(_)
TrimEnd(s) ==
  IF s # <<>> /\ IsSpace(s[Len(s)]) THEN TrimEnd(SubSeq(s, 1, Len(s) - 1)) ELSE s

\* String.prototype.trim
Trim(s) == TrimEnd(TrimStart(s))

\* String.prototype.includes
Includes(s, t) ==
  \E k \in 0..(Len(s) - Len(t)) : SubSeq(s, k + 1, k + Len(t)) = t

\* Array.prototype.some over a set of needles: some(term => s.includes(term))
IncludesAny(s, terms) == \E t \in terms : Includes(s, t)

Range(f) == {f[k] : k \in DOMAIN f}

\* Array.prototype.filter(m => m !== x)
Without(list, x) == SelectSeq(list, LAMBDA m : m # x)

-----------------------------------------------------------------------------
(* aiProvider.ts: the model gateway *)

AIModels == {"groq-llama", "openai-gpt-oss", "together-ai", "openrouter"}

\* getApiKeyEnvVar
getApiKeyEnvVar(model) ==
  CASE model = "groq-llama"     -> "GROQ_API_KEY"
    [] model = "openai-gpt-oss" -> "TOGETHER_API_KEY"
    [] model = "together-ai"    -> "TOGETHER_API_KEY"
    [] model = "openrouter"     -> "OPENROUTER_API_KEY"
    [] OTHER                    -> "AI_API_KEY"

EnvKeyNames == {"GROQ_API_KEY", "TOGETHER_API_KEY", "OPENROUTER_API_KEY", "AI_API_KEY"}

\* generateAIResponse: config?.model || process.env.AI_MODEL || 'groq-llama'
ResolveModel(cfg) ==
  IF cfg.model # "" THEN cfg.model
  ELSE IF env.AI_MODEL # "" THEN env.AI_MODEL
  ELSE "groq-llama"

\* mutant of ResolveApiKey: an unset credential becomes a placeholder key
ResolveApiKey_Placeholder(cfg) ==
  IF cfg.apiKey # "" THEN cfg.apiKey
  ELSE IF env.keys[getApiKeyEnvVar(ResolveModel(cfg))] # ""
    THEN env.keys[getApiKeyEnvVar(ResolveModel(cfg))]
  ELSE "sk-none"

\* generateAIResponse: config?.apiKey || process.env[getApiKeyEnvVar(model)] || ''
ResolveApiKey(cfg) ==
  IF cfg.apiKey # "" THEN cfg.apiKey ELSE env.keys[getApiKeyEnvVar(ResolveModel(cfg))]

GroqDefaultModel == "llama-3.3-70b-versatile"
GroqFallbackModels ==
  << "llama-3.3-70b-versatile",
     "openai/gpt-oss-120b",
     "meta-llama/llama-4-scout-17b-16e-instruct",
     "llama-3.1-8b-instant" >>

TogetherDefaultModel == "meta-llama/Llama-3.1-70B-Instruct-Turbo"
TogetherFallbackModels ==
  << "meta-llama/Llama-3.1-70B-Instruct-Turbo",
     "meta-llama/Llama-3-70B-Instruct",
     "mistralai/Mixtral-8x7B-Instruct-v0.1" >>

OpenRouterDefaultModel == "openai/gpt-oss-120b"
OpenRouterFallbackModels ==
  << "openai/gpt-oss-120b",
     "openai/gpt-oss-20b",
     "meta-llama/llama-3.1-70b-instruct",
     "anthropic/claude-3.5-sonnet" >>

\* mutant of CandidateList: the primary stays among the fallbacks
CandidateList_Unfiltered(primaryModel, fallbackModels) ==
  <<primaryModel>> \o fallbackModels

\* const modelsToTry = [primaryModel, ...fallbackModels.filter(m => m !== primaryModel)]
CandidateList(primaryModel, fallbackModels) ==
  <<primaryModel>> \o Without(fallbackModels, primaryModel)

\* generateWithGroq: process.env.GROQ_MODEL || 'llama-3.3-70b-versatile'
GroqPrimaryModel == IF env.GROQ_MODEL # "" THEN env.GROQ_MODEL ELSE GroqDefaultModel

GroqModelsToTry == CandidateList(GroqPrimaryModel, GroqFallbackModels)
TogetherModelsToTry(modelName) == CandidateList(modelName, TogetherFallbackModels)
OpenRouterModelsToTry(modelName) == CandidateList(modelName, OpenRouterFallbackModels)

(* An error thrown by a provider client.  0 and "" stand for undefined;    *)
(* code "429" stands for the number 429.                                   *)
ProviderError(status, responseStatus, code, message) ==
  [ status |-> status, responseStatus |-> responseStatus, statusCode |-> 0,
    code |-> code, responseCode |-> "", message |-> message ]

ErrSdk429      == ProviderError(429, 0, "", <<"E","r","r","o","r">>)
ErrAxios429    == ProviderError(0, 429, "", <<"R","e","q","u","e","s","t"," ","f","a","i","l","e","d">>)
ErrQuota       == ProviderError(0, 0, "", <<"q","u","o","t","a"," ","e","x","c","e","e","d","e","d">>)
ErrModelGone   == ProviderError(404, 404, "", <<"m","o","d","e","l"," ","d","e","c","o","m","m","i","s","s","i","o","n","e","d">>)
ErrOther       == ProviderError(500, 500, "", <<"b","o","o","m">>)

AllFaults == {ErrSdk429, ErrAxios429, ErrQuota, ErrModelGone, ErrOther}

\* a || b on numbers
OrNum(a, b) == IF a # 0 THEN a ELSE b
\* a || b on strings
OrStr(a, b) == IF a # "" THEN a ELSE b

\* generateWithGroq: isRateLimit
GroqIsRateLimit(error) ==
  LET errorMessage == ToLowerCase(error.message)
      errorStatus  == OrNum(error.status, OrNum(error.responseStatus, error.statusCode))
      errorCode    == OrStr(error.code, error.responseCode)
  IN  \/ errorStatus = 429
      \/ errorCode = "429"
      \/ errorCode = "rate_limit_exceeded"
      \/ Includes(errorMessage, <<"4","2","9">>)
      \/ Includes(errorMessage, <<"r","a","t","e"," ","l","i","m","i","t">>)
      \/ Includes(errorMessage, <<"t","o","o"," ","m","a","n","y"," ","r","e","q","u","e","s","t","s">>)
      \/ Includes(errorMessage, <<"q","u","o","t","a">>)
      \/ Includes(errorMessage, <<"r","a","t","e","_","l","i","m","i","t">>)

\* generateWithGroq: isModelError
GroqIsModelError(error) ==
  LET errorMessage == ToLowerCase(error.message)
  IN  /\ Includes(errorMessage, <<"m","o","d","e","l">>)
      /\ \/ Includes(errorMessage, <<"n","o","t"," ","f","o","u","n","d">>)
         \/ Includes(errorMessage, <<"i","n","v","a","l","i","d">>)
         \/ Includes(errorMessage, <<"d","e","c","o","m","m","i","s","s","i","o","n","e","d">>)
         \/ Includes(errorMessage, <<"n","o","t"," ","a","v","a","i","l","a","b","l","e">>)
         \/ Includes(errorMessage, <<"d","o","e","s"," ","n","o","t"," ","e","x","i","s","t">>)

\* generateWithGroq: isQuotaError
GroqIsQuotaError(error) ==
  LET errorMessage == ToLowerCase(error.message)
  IN  \/ Includes(errorMessage, <<"q","u","o","t","a">>)
      \/ Includes(errorMessage, <<"b","i","l","l","i","n","g">>)
      \/ Includes(errorMessage, <<"p","a","y","m","e","n","t">>)
      \/ Includes(errorMessage, <<"s","u","b","s","c","r","i","p","t","i","o","n">>)

\* generateWithTogetherAI, generateWithOpenRouter: isRateLimit (no lower-casing)
AxiosIsRateLimit(error) ==
  \/ error.responseStatus = 429
  \/ Includes(error.message, <<"4","2","9">>)
  \/ Includes(error.message, <<"r","a","t","e"," ","l","i","m","i","t">>)
  \/ Includes(error.message, <<"t","o","o"," ","m","a","n","y"," ","r","e","q","u","e","s","t","s">>)

IsRateLimit(f, error) ==
  IF f = "groq" THEN GroqIsRateLimit(error) ELSE AxiosIsRateLimit(error)

ProviderName(f) ==
  CASE f = "groq" -> "Groq" [] f = "together" -> "Together AI" [] OTHER -> "OpenRouter"

(* What generateAIResponse can throw. *)
MissingKeyError(model) ==
  [kind |-> "missingKey", model |-> model, variable |-> getApiKeyEnvVar(model)]
UnsupportedError(model) == [kind |-> "unsupported", model |-> model]
\* new Error(`Rate limit reached for all <provider> models (${names.join(', ')}). ...`)
AllRateLimitedError(f, names) ==
  [kind |-> "allRateLimited", provider |-> ProviderName(f), names |-> names]
\* throw error
OriginalError(error) == [kind |-> "original", error |-> error]

NoResult == [kind |-> "none"]
Returned(content) == [kind |-> "content", content |-> content]
Threw(err) == [kind |-> "error", error |-> err]

(* The text of a completion.  A completion without content is undefined;  *)
(* `content || ''` turns it, and '', into the empty string.                *)
UndefinedContent == [kind |-> "undefined"]
EmptyText == [kind |-> "empty"]
OrEmpty(content) == IF content.kind = "undefined" THEN EmptyText ELSE content

\* mutant of AxiosCatch: every failure moves on while a candidate remains
AxiosCatch_Resilient(f, error, k, n, limited) ==
  IF k < n THEN [do |-> "continue"]
  ELSE IF AxiosIsRateLimit(error)
    THEN [do |-> "throw", error |-> AllRateLimitedError(f, limited)]
  ELSE [do |-> "throw", error |-> OriginalError(error)]

\* generateWithTogetherAI, generateWithOpenRouter: the catch block
AxiosCatch(f, error, k, n, limited) ==
  IF AxiosIsRateLimit(error)
    THEN IF k < n THEN [do |-> "continue"]
         ELSE [do |-> "throw", error |-> AllRateLimitedError(f, limited)]
    ELSE [do |-> "throw", error |-> OriginalError(error)]

\* mutant of GroqCatch: only classified errors move on to the next model
GroqCatch_FailFast(error, k, n, limited) ==
  IF GroqIsRateLimit(error)
    THEN IF k < n THEN [do |-> "continue"]
         ELSE [do |-> "throw", error |-> AllRateLimitedError("groq", limited)]
    ELSE IF (GroqIsModelError(error) \/ GroqIsQuotaError(error)) /\ k < n
           THEN [do |-> "continue"]
         ELSE [do |-> "throw", error |-> OriginalError(error)]

\* what the catch block of the running function does with `error` at index i:
\* "continue", or the error it throws
GroqCatch(error, k, n, limited) ==
  IF GroqIsRateLimit(error)
    THEN IF k < n THEN [do |-> "continue"]
         ELSE [do |-> "throw", error |-> AllRateLimitedError("groq", limited)]
    ELSE IF (GroqIsModelError(error) \/ GroqIsQuotaError(error)) /\ k < n
           THEN [do |-> "continue"]
         ELSE IF k < n THEN [do |-> "continue"]
         ELSE [do |-> "throw", error |-> OriginalError(error)]

Catch(f, error, k, n, limited) ==
  IF f = "groq" THEN GroqCatch(error, k, n, limited)
  ELSE AxiosCatch(f, error, k, n, limited)

\* mutant of PushIfRateLimited: the model of the last attempt is not recorded
PushIfRateLimited_Forgets(f, error, limited, model) == limited

\* mutant of NextIndex: `continue` tries the same candidate again
NextIndex_Stays(k) == k

\* mutant of NextIndex: `continue` skips a candidate
NextIndex_Skips(k) == k + 2

\* `continue`: the for loop's i++
NextIndex(k) == k + 1

\* rateLimitedModels.push(model) when the error is a rate limit
PushIfRateLimited(f, error, limited, model) ==
  IF IsRateLimit(f, error) THEN Append(limited, model) ELSE limited

\* entering one of the generateWith* functions
Enter(f, list, gptoss, model) ==
  /\ selected' = model
  /\ fn' = f
  /\ viaGptOss' = gptoss
  /\ modelsToTry' = list
  /\ i' = 1
  /\ rateLimitedModels' = <<>>
  /\ inFlight' = {}
  /\ calls' = <<>>
  /\ gwStatus' = "running"
  /\ gwResult' = NoResult

\* generateAIResponse throws before any generateWith* function is entered
FailFast(model, err) ==
  /\ selected' = model
  /\ fn' = "none"
  /\ viaGptOss' = FALSE
  /\ modelsToTry' = <<>>
  /\ i' = 1
  /\ rateLimitedModels' = <<>>
  /\ inFlight' = {}
  /\ calls' = <<>>
  /\ gwStatus' = "threw"
  /\ gwResult' = Threw(err)

\* generateAIResponse(prompt, systemPrompt, cfg) up to its first await
generateAIResponse(cfg) ==
  LET model == ResolveModel(cfg)
      key   == ResolveApiKey(cfg)
  IN  IF key = "" THEN FailFast(model, MissingKeyError(model))
      ELSE CASE model = "groq-llama" -> Enter("groq", GroqModelsToTry, FALSE, model)
             [] model = "openai-gpt-oss" ->
                  Enter("together", TogetherModelsToTry(TogetherDefaultModel), TRUE, model)
             [] model = "together-ai" ->
                  Enter("together", TogetherModelsToTry(TogetherDefaultModel), FALSE, model)
             [] model = "openrouter" ->
                  Enter("openrouter", OpenRouterModelsToTry(OpenRouterDefaultModel), FALSE, model)
             [] OTHER -> FailFast(model, UnsupportedError(model))

-----------------------------------------------------------------------------
(* languageSimplifier.ts: the paraphrase check *)

Min3(a, b, c) ==
  IF a <= b /\ a <= c THEN a ELSE IF b <= c THEN b ELSE c

(* levenshteinDistance: matrix[i][j] for i over str2 and j over str1.      *)
(* A row is kept as a sequence whose element j+1 is matrix[i][j].  Each    *)
(* row is computed before the next one is started (the Len tests force the *)
(* evaluation), as the nested loops do.                                    *)
RECURSIVE LevFillRow(_, _, _, _, _)
LevFillRow(row, prev, ch, str1, j) ==
  IF j > Len(str1) THEN row
  ELSE LET cell == IF ch = str1[j]
                     THEN prev[j]
                     ELSE Min3(prev[j] + 1, row[j] + 1, prev[j + 1] + 1)
           filled == Append(row, cell)
       IN  IF Len(filled) = j + 1
             THEN LevFillRow(filled, prev, ch, str1, j + 1)
             ELSE filled

RECURSIVE LevRows(_, _, _, _)
LevRows(prev, str1, str2, k) ==
  IF k > Len(str2) THEN prev
  ELSE LET row == LevFillRow(<<k>>, prev, str2[k], str1, 1)
       IN  IF Len(row) = Len(prev)
             THEN LevRows(row, str1, str2, k + 1)
             ELSE row

levenshteinDistance(str1, str2) ==
  LevRows([j \in 1..(Len(str1) + 1) |-> j - 1], str1, str2, 1)[Len(str1) + 1]

(* calculateSimilarity returns (longer.length - distance) / longer.length, *)
(* 1.0 for two empty strings.  The quotient is kept as the pair            *)
(* <<numerator, denominator>>.                                             *)
calculateSimilarity(str1, str2) ==
  LET longer  == IF Len(str1) > Len(str2) THEN str1 ELSE str2
      shorter == IF Len(str1) > Len(str2) THEN str2 ELSE str1
  IN  IF Len(longer) = 0 THEN <<1, 1>>
      ELSE <<Len(longer) - levenshteinDistance(longer, shorter), Len(longer)>>

\* similarity > 0.9, on the quotient num/den with den > 0
MoreThan90Percent(q) == 10 * q[1] > 9 * q[2]

\* mutant of isActuallySimplified: the strings are compared without lower-casing
isActuallySimplified_CaseSensitive(original, simplified) ==
  LET orig == Trim(original)
      simp == Trim(simplified)
  IN  IF orig = simp THEN FALSE
      ELSE IF MoreThan90Percent(calculateSimilarity(orig, simp)) THEN FALSE
      ELSE TRUE

isActuallySimplified(original, simplified) ==
  LET orig == Trim(ToLowerCase(original))
      simp == Trim(ToLowerCase(simplified))
  IN  IF orig = simp THEN FALSE
      ELSE IF MoreThan90Percent(calculateSimilarity(orig, simp)) THEN FALSE
      ELSE TRUE

-----------------------------------------------------------------------------
(* aiService.ts: JSON values and the validation of the drafts *)

(* Where the code does not fix the type of a parsed value it is tagged.    *)
JsonNull == [t |-> "null"]
JsonArray(items) == [t |-> "array", items |-> items]
JsonString(chars) == [t |-> "string", chars |-> chars]

\* the value is truthy: `value || fallback` keeps it
JsonTruthy(v) ==
  CASE v.t = "null"   -> FALSE
    [] v.t = "string" -> v.chars # <<>>
    [] OTHER          -> TRUE

Has(obj, key) == key \in DOMAIN obj

\* obj.key is a non-empty string
Truthy(obj, key) == Has(obj, key) /\ obj[key] # <<>>

\* delete obj.k for every k in keys
Delete(obj, keys) == [k \in DOMAIN obj \ keys |-> obj[k]]

\* {...obj, key: value}
With(obj, key, value) ==
  [k \in DOMAIN obj \cup {key} |-> IF k = key THEN value ELSE obj[k]]

\* notSpecifiedPatterns.some(pattern => pattern.test(value))
NotSpecifiedPatterns ==
  { <<"n","o","t"," ","s","p","e","c","i","f","i","e","d">>, <<"n","o","t"," ","r","e","p","o","r","t","e","d">>, <<"n","o","t"," ","m","e","n","t","i","o","n","e","d">>, <<"n","o","t"," ","a","v","a","i","l","a","b","l","e">>,
    <<"n","/","a">>, <<"n","a">>, <<"u","n","k","n","o","w","n">>, <<"u","n","s","p","e","c","i","f","i","e","d">> }

IsNotSpecified(value) == IncludesAny(ToLowerCase(value), NotSpecifiedPatterns)

PlaceholderFields ==
  {"dosage", "servingSize", "frequencyOfIntake", "reps", "sets", "duration", "frequency"}

ScrubPlaceholders(rec) ==
  Delete(rec, {f \in PlaceholderFields : Truthy(rec, f) /\ IsNotSpecified(rec[f])})

ExerciseFields == {"specificExercises", "reps", "sets", "duration", "frequency"}
ExerciseEvidenceFields == {"sectionForExercises", "exerciseDetailsChunk"}
IntakeFields == {"dosage", "servingSize", "frequencyOfIntake"}
IntakeEvidenceFields == {"sectionForDosage", "dosageDetailsChunk"}

\* rec.evidence?.some(ev => ev[chunkField])
HasChunks(rec, chunkField) ==
  Has(rec, "evidence") /\ \E k \in DOMAIN rec.evidence : Truthy(rec.evidence[k], chunkField)

\* mutant of GateOnChunk: the fields are kept when the draft has an evidence list
GateOnChunk_EvidenceOnly(rec, chunkField, fields, evidenceFields) ==
  IF Has(rec, "evidence") THEN rec ELSE Delete(rec, fields)

\* if (!hasChunks) { delete the fields; delete the evidence sub-fields }
GateOnChunk(rec, chunkField, fields, evidenceFields) ==
  IF HasChunks(rec, chunkField) THEN rec
  ELSE LET bare == Delete(rec, fields)
       IN  IF Has(bare, "evidence")
             THEN [bare EXCEPT !.evidence =
                     [k \in DOMAIN @ |-> Delete(@[k], evidenceFields)]]
             ELSE bare

\* the first .map of the validation chain
StripUnsupported(rec) ==
  GateOnChunk(
    GateOnChunk(ScrubPlaceholders(rec),
                "exerciseDetailsChunk", ExerciseFields, ExerciseEvidenceFields),
    "dosageDetailsChunk", IntakeFields, IntakeEvidenceFields)

StartsWith(s, p) == Len(s) >= Len(p) /\ SubSeq(s, 1, Len(p)) = p
EndsWith(s, p) == Len(s) >= Len(p) /\ SubSeq(s, Len(s) - Len(p) + 1, Len(s)) = p
AllSpace(s) == \A k \in 1..Len(s) : IsSpace(s[k])

\* ^head\s+tail$ (atLeast = 1) or ^head\s*tail$ (atLeast = 0)
MatchesSpaced(s, head, tail, atLeast) ==
  /\ Len(s) >= Len(head) + Len(tail) + atLeast
  /\ StartsWith(s, head)
  /\ EndsWith(s, tail)
  /\ AllSpace(SubSeq(s, Len(head) + 1, Len(s) - Len(tail)))

\* ^.*\s+tail$ : `.` matches no line terminator
MatchesAnythingSpaced(s, tail) ==
  /\ EndsWith(s, tail)
  /\ \E k \in 0..(Len(s) - Len(tail) - 1) :
       /\ \A m \in 1..k : s[m] # "\n"
       /\ AllSpace(SubSeq(s, k + 1, Len(s) - Len(tail)))

SingleGenericWords ==
  { <<"e","x","e","r","c","i","s","e">>, <<"a","c","t","i","v","i","t","y">>, <<"d","i","e","t">>, <<"n","u","t","r","i","t","i","o","n">>, <<"f","o","o","d">>, <<"t","h","e","r","a","p","y">> }
GenericQualifiers ==
  { <<"s","u","b","m","a","x","i","m","a","l">>, <<"t","h","e","r","a","p","e","u","t","i","c">>, <<"g","e","n","e","r","a","l">>, <<"m","o","d","e","r","a","t","e">>, <<"i","n","t","e","n","s","i","v","e">> }
GenericNouns == { <<"e","x","e","r","c","i","s","e">>, <<"a","c","t","i","v","i","t","y">>, <<"d","i","e","t">>, <<"n","u","t","r","i","t","i","o","n">> }

\* mutant of MatchesGenericPattern: only the "(general)" patterns are tested
MatchesGenericPattern_GeneralOnly(rawName) ==
  LET name == ToLowerCase(rawName)
  IN  \/ MatchesSpaced(name, <<"e","x","e","r","c","i","s","e">>, <<"(","g","e","n","e","r","a","l",")">>, 0)
      \/ MatchesAnythingSpaced(name, <<"(","g","e","n","e","r","a","l",")">>)

\* genericPatterns.some(pattern => pattern.test(name)), every pattern with /i
MatchesGenericPattern(rawName) ==
  LET name == ToLowerCase(rawName)
  IN  \/ \E q \in GenericQualifiers, n \in GenericNouns : MatchesSpaced(name, q, n, 1)
      \/ MatchesSpaced(name, <<"e","x","e","r","c","i","s","e">>, <<"(","g","e","n","e","r","a","l",")">>, 0)
      \/ MatchesAnythingSpaced(name, <<"(","g","e","n","e","r","a","l",")">>)
      \/ MatchesSpaced(name, <<"d","i","e","t","a","r","y">>, <<"i","n","t","e","r","v","e","n","t","i","o","n">>, 1)
      \/ MatchesSpaced(name, <<"d","i","e","t","a","r","y">>, <<"i","n","t","e","r","v","e","n","t","i","o","n","s">>, 1)
      \/ MatchesSpaced(name, <<"n","u","t","r","i","t","i","o","n","a","l">>, <<"i","n","t","e","r","v","e","n","t","i","o","n">>, 1)
      \/ MatchesSpaced(name, <<"n","u","t","r","i","t","i","o","n","a","l">>, <<"i","n","t","e","r","v","e","n","t","i","o","n","s">>, 1)

VagueMechanisms ==
  { <<"a","c","t","s"," ","a","s"," ","a"," ","w","a","y">>, <<"h","e","l","p","s"," ","w","i","t","h"," ","t","r","e","a","t","m","e","n","t">>, <<"i","s"," ","b","e","n","e","f","i","c","i","a","l">>, <<"h","e","l","p","s"," ","i","m","p","r","o","v","e">>,
    <<"i","s"," ","g","o","o","d"," ","f","o","r">>, <<"c","a","n"," ","h","e","l","p">> }
VagueMechanismLength == 50

MetabolicConditionTerms ==
  { <<"d","i","a","b","e","t","e","s">>, <<"i","n","s","u","l","i","n">>, <<"g","l","u","c","o","s","e">>, <<"m","e","t","a","b","o","l","i","c">>, <<"b","l","o","o","d"," ","s","u","g","a","r">>,
    <<"h","y","p","e","r","g","l","y","c","e","m","i","a">>, <<"h","y","p","o","g","l","y","c","e","m","i","a">> }
NeurologicalConditionTerms ==
  { <<"c","o","n","c","u","s","s","i","o","n">>, <<"b","r","a","i","n">>, <<"n","e","u","r","o","l","o","g","i","c","a","l">>, <<"c","o","g","n","i","t","i","v","e">>, <<"n","e","u","r","o">>, <<"t","b","i">>,
    <<"t","r","a","u","m","a","t","i","c"," ","b","r","a","i","n">> }
MetabolicTerms ==
  { <<"i","n","s","u","l","i","n">>, <<"g","l","u","c","o","s","e">>, <<"b","l","o","o","d"," ","s","u","g","a","r">>, <<"g","l","y","c","e","m","i","c">>, <<"m","e","t","a","b","o","l","i","c">>, <<"d","i","a","b","e","t","e","s">> }
NeurologicalTerms ==
  { <<"n","e","u","r","o","i","n","f","l","a","m","m","a","t","i","o","n">>, <<"n","e","u","r","o","p","l","a","s","t","i","c","i","t","y">>, <<"c","o","g","n","i","t","i","v","e">>, <<"a","x","o","n","a","l">>,
    <<"b","r","a","i","n"," ","i","n","j","u","r","y">>, <<"c","o","n","c","u","s","s","i","o","n">> }

\* mutant of isNeurologicalCondition: only "brain" marks a neurological condition
isNeurologicalCondition_BrainOnly(cond) == Includes(ToLowerCase(cond), <<"b","r","a","i","n">>)

isMetabolicCondition(cond) == IncludesAny(ToLowerCase(cond), MetabolicConditionTerms)
isNeurologicalCondition(cond) == IncludesAny(ToLowerCase(cond), NeurologicalConditionTerms)

\* the .filter of the validation chain: true when the recommendation is kept
KeepRecommendation(rec, cond) ==
  LET conditionLower == ToLowerCase(cond)
      name      == IF Has(rec, "name") THEN Trim(ToLowerCase(rec.name)) ELSE <<>>
      mechanism == IF Has(rec, "mechanism") THEN ToLowerCase(rec.mechanism) ELSE <<>>
      hasMetabolicOnly ==
        /\ IncludesAny(mechanism, MetabolicTerms)
        /\ ~IncludesAny(mechanism, NeurologicalTerms)
        /\ ~Includes(mechanism, conditionLower)
      hasNeuroOnly ==
        /\ IncludesAny(mechanism, NeurologicalTerms)
        /\ ~IncludesAny(mechanism, MetabolicTerms)
        /\ ~Includes(mechanism, <<"m","e","t","a","b","o","l","i","c">>)
        /\ ~Includes(mechanism, conditionLower)
  IN  /\ name # <<>>
      /\ name \notin SingleGenericWords
      /\ ~MatchesGenericPattern(name)
      /\ ~\E vague \in VagueMechanisms :
            Includes(mechanism, vague) /\ Len(mechanism) < VagueMechanismLength
      /\ ~(isNeurologicalCondition(cond) /\ ~isMetabolicCondition(cond) /\ hasMetabolicOnly)
      /\ ~(isMetabolicCondition(cond) /\ ~isNeurologicalCondition(cond) /\ hasNeuroOnly)

(* The source documents.  A paper is [id, title, url] with doi when it has *)
(* one.                                                                    *)
PubMedEntry(p) ==
  IF Has(p, "doi")
    THEN [id |-> p.pmid, title |-> p.title, url |-> p.url, doi |-> p.doi]
    ELSE [id |-> p.pmid, title |-> p.title, url |-> p.url]
SemanticEntry(p) ==
  IF Has(p, "doi")
    THEN [id |-> p.paperId, title |-> p.title, url |-> p.url, doi |-> p.doi]
    ELSE [id |-> p.paperId, title |-> p.title, url |-> p.url]
\* Google Scholar papers and web contents: id is the url, doi is undefined
UrlEntry(p) == [id |-> p.url, title |-> p.title, url |-> p.url]

CombinePapers(src) ==
  [k \in DOMAIN src.pubmed |-> PubMedEntry(src.pubmed[k])]
    \o [k \in DOMAIN src.semantic |-> SemanticEntry(src.semantic[k])]
    \o [k \in DOMAIN src.scholar |-> UrlEntry(src.scholar[k])]
    \o [k \in DOMAIN src.web |-> UrlEntry(src.web[k])]

\* allPapers.find(p => p.id === ev.paperId || p.title === ev.paperTitle)
PaperMatches(p, ev) ==
  \/ Has(ev, "paperId") /\ p.id = ev.paperId
  \/ Has(ev, "paperTitle") /\ p.title = ev.paperTitle

\* mutant of FindPaper: the title is not looked at
FindPaper_ByIdOnly(allPapers, ev) ==
  LET hits == {k \in 1..Len(allPapers) :
                 Has(ev, "paperId") /\ allPapers[k].id = ev.paperId}
  IN  IF hits = {} THEN <<>>
      ELSE <<allPapers[CHOOSE k \in hits : \A m \in hits : k <= m]>>

FindPaper(allPapers, ev) ==
  LET hits == {k \in 1..Len(allPapers) : PaperMatches(allPapers[k], ev)}
  IN  IF hits = {} THEN <<>>
      ELSE <<allPapers[CHOOSE k \in hits : \A m \in hits : k <= m]>>

\* { ...ev, paperUrl: paper?.url || ev.paperUrl, doi: paper?.doi || ev.doi }
\* a key whose value is undefined is not part of the JSON result
ReconcileEvidence(ev, allPapers) ==
  LET found == FindPaper(allPapers, ev)
      url == IF found # <<>> /\ Truthy(found[1], "url") THEN <<found[1].url>>
             ELSE IF Has(ev, "paperUrl") THEN <<ev.paperUrl>> ELSE <<>>
      doi == IF found # <<>> /\ Truthy(found[1], "doi") THEN <<found[1].doi>>
             ELSE IF Has(ev, "doi") THEN <<ev.doi>> ELSE <<>>
      e1 == IF url # <<>> THEN With(ev, "paperUrl", url[1]) ELSE Delete(ev, {"paperUrl"})
  IN  IF doi # <<>> THEN With(e1, "doi", doi[1]) ELSE Delete(e1, {"doi"})

\* the second .map of the validation chain
ReconcileRecommendation(rec, allPapers) ==
  With(rec, "evidence",
       IF Has(rec, "evidence")
         THEN [k \in DOMAIN rec.evidence |-> ReconcileEvidence(rec.evidence[k], allPapers)]
         ELSE <<>>)

\* (analysis.recommendations || []).map(...).filter(...).map(...)
ValidateRecommendations(drafts, cond, allPapers) ==
  LET stripped == [k \in 1..Len(drafts) |-> StripUnsupported(drafts[k])]
      kept     == SelectSeq(stripped, LAMBDA rec : KeepRecommendation(rec, cond))
  IN  [k \in 1..Len(kept) |-> ReconcileRecommendation(kept[k], allPapers)]

-----------------------------------------------------------------------------
(* Model output: the text of a response, cleaning and parsing *)

JsonObject(fields) == [t |-> "object", fields |-> fields]

\* a response that is not JSON, whatever is stripped from it
GarbageText == [kind |-> "text", id |-> 1]
\* a response that is the JSON text of `value`, inside a ```json fence or bare
JsonText(value, fenced) == [kind |-> "json", fenced |-> fenced, value |-> value]

\* responseText.replace(/```json\n?/g, '').replace(/```\n?/g, '').trim()
StripFences(text) ==
  IF text.kind = "json" THEN [text EXCEPT !.fenced = FALSE] ELSE text

\* mutant of JsonParse: text that is not JSON parses as the empty object
JsonParse_Lenient(text) ==
  IF text.kind = "json" /\ ~text.fenced
    THEN [ok |-> TRUE, value |-> text.value]
    ELSE [ok |-> TRUE, value |-> JsonObject(<<>>)]

\* JSON.parse: the value, or a SyntaxError
JsonParse(text) ==
  IF text.kind = "json" /\ ~text.fenced
    THEN [ok |-> TRUE, value |-> text.value]
    ELSE [ok |-> FALSE]

Thrown == [ok |-> FALSE]
Value(v) == [ok |-> TRUE, value |-> v]

\* list[k], <<>> standing for undefined
At(list, k) == IF k \in DOMAIN list THEN <<list[k]>> ELSE <<>>

(* languageSimplifier.ts: simplifyMultipleTexts *)

\* the catch block: every text is its own simplification
SimplifyFallback(texts) ==
  [k \in DOMAIN texts |->
     [original |-> texts[k].text, simplified |-> texts[k].text,
      technicalTerms |-> JsonArray(<<>>)]]

\* mutant of SimplifyMapBack: one entry per item of the reply
SimplifyMapBack_ByReply(texts, simplified) ==
  LET n == IF simplified.t = "array" /\ Len(simplified.items) < Len(texts)
             THEN Len(simplified.items) ELSE Len(texts)
  IN  [k \in 1..n |->
         [original |-> texts[k].text, simplified |-> texts[k].text,
          technicalTerms |-> JsonArray(<<>>)]]

\* texts.map((t, i) => ({ original, simplified: simplified[i]?.simplified || t.text,
\*                        technicalTerms: simplified[i]?.technicalTerms || [] }))
SimplifyMapBack(texts, simplified) ==
  [k \in DOMAIN texts |->
     LET item == IF simplified.t = "array" THEN At(simplified.items, k) ELSE <<>>
     IN  [original |-> texts[k].text,
          simplified |->
            IF item # <<>> /\ Truthy(item[1], "simplified")
              THEN item[1].simplified ELSE texts[k].text,
          technicalTerms |->
            IF item # <<>> /\ Has(item[1], "technicalTerms")
                 /\ JsonTruthy(item[1].technicalTerms)
              THEN item[1].technicalTerms ELSE JsonArray(<<>>)]]

\* what simplifyMultipleTexts returns once its model call has settled
simplifyMultipleTexts(texts, settled) ==
  IF settled.kind = "error" THEN SimplifyFallback(texts)
  ELSE LET parsed == JsonParse(StripFences(settled.content))
       IN  IF ~parsed.ok THEN SimplifyFallback(texts)
           \* simplified[i] on null is a TypeError
           ELSE IF parsed.value.t = "null" THEN SimplifyFallback(texts)
           ELSE SimplifyMapBack(texts, parsed.value)

(* aiService.ts: the texts sent to the simplifier and the mapping back *)

TextsOf(rec) ==
  <<[text |-> rec.summary, context |-> "recommendation"]>>
    \o (IF Truthy(rec, "mechanism")
          THEN <<[text |-> rec.mechanism, context |-> "biological mechanism"]>>
          ELSE <<>>)

RECURSIVE Flatten(_)
Flatten(lists) == IF lists = <<>> THEN <<>> ELSE Head(lists) \o Flatten(Tail(lists))

\* recommendations.flatMap(...)
TextsToSimplify(recs) == Flatten([k \in DOMAIN recs |-> TextsOf(recs[k])])

\* mutant of SimplifiedIndex: two entries are counted for every recommendation
SimplifiedIndex_TwoEach(recs, k) == 2 * k - 1

\* the value of simplifiedIndex when recommendation k is mapped
RECURSIVE SimplifiedIndex(_, _)
SimplifiedIndex(recs, k) ==
  IF k = 1 THEN 1 ELSE SimplifiedIndex(recs, k - 1) + Len(TextsOf(recs[k - 1]))

\* entry?.technicalTerms || []
TermsOf(entry) ==
  IF entry # <<>> /\ JsonTruthy(entry[1].technicalTerms)
    THEN entry[1].technicalTerms ELSE JsonArray(<<>>)

\* the spread of a value that is not an array, or t.term.toLowerCase() on an
\* entry without a term, is a TypeError
TermsThrow(terms) ==
  \/ terms.t # "array"
  \/ \E k \in DOMAIN terms.items : ~Has(terms.items[k], "term")

\* Array.from(new Map(aiTerms.map(t => [t.term.toLowerCase(), t])).values()):
\* one entry per lower-cased term, at the place of its first occurrence, with
\* the value of its last
UniqueTerms(aiTerms) ==
  LET key(k)     == ToLowerCase(aiTerms[k].term)
      IsFirst(k) == \A m \in 1..(k - 1) : key(m) # key(k)
      LastOf(k)  == CHOOSE m \in k..Len(aiTerms) :
                      /\ key(m) = key(k)
                      /\ \A n \in (m + 1)..Len(aiTerms) : key(n) # key(k)
      firsts     == SelectSeq([k \in 1..Len(aiTerms) |-> k], IsFirst)
  IN  [n \in 1..Len(firsts) |-> aiTerms[LastOf(firsts[n])]]

\* simplified !== original
IsDifferent(simplified, original) == simplified # original

\* entry?.simplified && entry.simplified !== original ? entry.simplified : undefined
SimplifiedField(entry, original) ==
  IF entry # <<>> /\ entry[1].simplified # <<>> /\ IsDifferent(entry[1].simplified, original)
    THEN <<entry[1].simplified>> ELSE <<>>

\* { ...obj, key: value or undefined }
WithOptional(obj, key, value) ==
  IF value # <<>> THEN With(obj, key, value[1]) ELSE Delete(obj, {key})

\* the body of recommendations.map((rec) => ...): the recommendation with its
\* simplified fields, or a TypeError
WithSimplified(rec, summaryEntry, mechanismEntry) ==
  LET summaryTerms   == TermsOf(summaryEntry)
      mechanismTerms == TermsOf(mechanismEntry)
  IN  IF TermsThrow(summaryTerms) \/ TermsThrow(mechanismTerms) THEN Thrown
      ELSE LET uniqueTerms == UniqueTerms(summaryTerms.items \o mechanismTerms.items)
               r1 == WithOptional(rec, "summarySimplified",
                                  SimplifiedField(summaryEntry, rec.summary))
               r2 == WithOptional(r1, "mechanismSimplified",
                       IF Has(rec, "mechanism")
                         THEN SimplifiedField(mechanismEntry, rec.mechanism) ELSE <<>>)
           IN  Value(WithOptional(r2, "technicalTerms",
                       IF Len(uniqueTerms) > 0 THEN <<uniqueTerms>> ELSE <<>>))

\* recommendationsWithSimplified, or a TypeError
MapSimplified(recs, entries) ==
  LET mapped == [k \in DOMAIN recs |->
                   LET idx == SimplifiedIndex(recs, k)
                   IN  WithSimplified(recs[k], At(entries, idx),
                         IF Truthy(recs[k], "mechanism")
                           THEN At(entries, idx + 1) ELSE <<>>)]
  IN  IF \E k \in DOMAIN mapped : ~mapped[k].ok THEN Thrown
      ELSE Value([k \in DOMAIN mapped |-> mapped[k].value])

-----------------------------------------------------------------------------
(* aiService.ts: analyzeHealthPapers between its awaits *)

NoText == [kind |-> "none"]
NotSettled == [kind |-> "none"]
Resolved(value) == [kind |-> "returned", value |-> value]
\* the result object while generateBudgetOptions is awaited
Partial(value) == [kind |-> "partial", value |-> value]

NoSources == [pubmed |-> <<>>, semantic |-> <<>>, scholar |-> <<>>, web |-> <<>>]

\* analyzeHealthPapers passes no config to generateAIResponse
NoConfig == [model |-> "", apiKey |-> ""]

\* { condition, recommendations: [], mechanisms: [] }
EmptyResult(cond) ==
  [condition |-> cond, recommendations |-> <<>>, mechanisms |-> JsonArray(<<>>)]

\* obj.key || []
OrEmptyArray(obj, key) ==
  IF Has(obj, key) /\ JsonTruthy(obj[key]) THEN obj[key] ELSE JsonArray(<<>>)

\* from the settled model call to the validated recommendations: the value
\* [recommendations, mechanisms], or an exception for the catch block
ExtractAnalysis(settled, cond, allPapers) ==
  IF settled.kind = "error" THEN Thrown
  ELSE LET parsed == JsonParse(StripFences(settled.content))
       IN  IF ~parsed.ok THEN Thrown
           \* analysis.recommendations on null is a TypeError
           ELSE IF parsed.value.t = "null" THEN Thrown
           ELSE LET analysis == parsed.value.fields
                    drafts   == OrEmptyArray(analysis, "recommendations")
                IN  \* .map of a value that is not an array is a TypeError
                    IF drafts.t # "array" THEN Thrown
                    ELSE Value([ recommendations |->
                                   ValidateRecommendations(drafts.items, cond, allPapers),
                                 mechanisms |-> OrEmptyArray(analysis, "mechanisms") ])

\* mutant of generateBudgetOptions: a failed call leaves budgetOptions null
generateBudgetOptions_NullOnFailure(settled) ==
  IF settled.kind = "error" THEN JsonNull
  ELSE LET parsed == JsonParse(StripFences(settled.content))
       IN  IF ~parsed.ok THEN JsonNull
           ELSE IF parsed.value.t = "null" THEN JsonNull
           ELSE OrEmptyArray(parsed.value.fields, "options")

\* generateBudgetOptions once its model call has settled: its catch returns []
generateBudgetOptions(settled) ==
  IF settled.kind = "error" THEN JsonArray(<<>>)
  ELSE LET parsed == JsonParse(StripFences(settled.content))
       IN  IF ~parsed.ok THEN JsonArray(<<>>)
           ELSE IF parsed.value.t = "null" THEN JsonArray(<<>>)
           ELSE OrEmptyArray(parsed.value.fields, "options")

(* The source documents and the model outputs of the runs. *)
MaxRecs == 2

\* no document, one PubMed paper, one web page
SourceChoices ==
  { NoSources,
    [NoSources EXCEPT !.pubmed =
       << [pmid |-> <<"p","1">>, title |-> <<"T","1">>, url |-> <<"u","1">>, doi |-> <<"d","1">>] >>],
    [NoSources EXCEPT !.web = << [title |-> <<"T","2">>, url |-> <<"u","2">>] >>] }

\* an evidence item that names the sections and carries no chunk
EvBare ==
  [ paperId |-> <<"p","1">>, paperTitle |-> <<"T","1">>,
    sectionForExercises |-> <<"M","e","t","h","o","d","s">>, sectionForDosage |-> <<"R","e","s","u","l","t","s">> ]

\* an activity whose duration is in its chunk
DraftWalk ==
  [ type |-> "activity", name |-> <<"W","a","l","k","i","n","g">>, category |-> "beneficial",
    mechanism |-> <<"A","i","d","s"," ","F","l","o","w">>, summary |-> <<"W","a","l","k"," ","M","o","r","e">>, duration |-> <<"3","0"," ","M","I","N">>,
    evidence |->
      << [ paperId |-> <<"p","1">>, paperTitle |-> <<"T","1">>, paperUrl |-> <<"x">>, quote |-> <<"q">>,
           sectionForExercises |-> <<"M","e","t","h","o","d","s">>,
           exerciseDetailsChunk |-> <<"W","a","l","k"," ","3","0"," ","m","i","n">> ] >> ]
\* an activity whose reps are not in its chunk, and a placeholder for sets
DraftSquat ==
  [ type |-> "activity", name |-> <<"S","q","u","a","t","s">>, category |-> "beneficial",
    summary |-> <<"D","o"," ","S","q","u","a","t","s">>, reps |-> <<"1","2">>, sets |-> <<"N","/","A">>,
    specificExercises |-> <<<<"S","q","u","a","t","s">>>>,
    evidence |->
      << [ paperId |-> <<"p","9">>, paperTitle |-> <<"T","9">>, paperUrl |-> <<"x">>, doi |-> <<"d","9">>,
           exerciseDetailsChunk |-> <<"d","a","i","l","y"," ","s","q","u","a","t","s">> ] >> ]
\* a food whose dosage is in its chunk
DraftOil ==
  [ type |-> "food", name |-> <<"F","i","s","h"," ","o","i","l">>, category |-> "beneficial",
    mechanism |-> <<"L","e","s","s"," ","S","w","e","l","l","i","n","g">>, summary |-> <<"T","a","k","e"," ","O","i","l">>, dosage |-> <<"2"," ","g">>,
    evidence |->
      << [ paperTitle |-> <<"T","2">>, sectionForDosage |-> <<"R","e","s","u","l","t","s">>,
           dosageDetailsChunk |-> <<"t","o","o","k"," ","2"," ","g"," ","o","i","l">> ],
         EvBare >> ]
\* details without any chunk
DraftBare ==
  [ type |-> "activity", name |-> <<"Y","o","g","a">>, category |-> "beneficial",
    summary |-> <<"T","r","y"," ","Y","o","g","a">>, reps |-> <<"5">>, duration |-> <<"1"," ","h">>,
    dosage |-> <<"1"," ","c","u","p">>, servingSize |-> <<"1"," ","c","u","p">>, evidence |-> <<EvBare>> ]
\* details without an evidence list
DraftLoose ==
  [ type |-> "activity", name |-> <<"R","e","s","t">>, category |-> "risky",
    summary |-> <<"R","e","s","t"," ","L","e","s","s">>, frequency |-> <<"d","a","i","l","y">>, frequencyOfIntake |-> <<"d","a","i","l","y">>,
    specificExercises |-> <<<<"N","a","p">>>> ]
\* a generic name
DraftGeneric ==
  [ type |-> "activity", name |-> <<"M","o","d","e","r","a","t","e"," "," ","E","x","e","r","c","i","s","e">>, category |-> "beneficial",
    summary |-> <<"M","o","v","e">>, evidence |-> <<EvBare>> ]

DraftPool == <<DraftWalk, DraftSquat, DraftGeneric, DraftOil, DraftBare, DraftLoose>>

\* the drafts of the pool at the places in picked, in the order of the pool
DraftsAt(picked) ==
  LET places == SelectSeq([k \in 1..Len(DraftPool) |-> k], LAMBDA k : k \in picked)
  IN  [n \in 1..Len(places) |-> DraftPool[places[n]]]

\* the lists of at most MaxRecs drafts
DraftLists ==
  {DraftsAt(picked) : picked \in {p \in SUBSET (1..Len(DraftPool)) : Cardinality(p) <= MaxRecs}}

SomeMechanisms == JsonArray(<<<<"i","n","f","l","a","m","m","a","t","i","o","n">>>>)

Analyses ==
  { [recommendations |-> JsonArray(list), mechanisms |-> SomeMechanisms] :
      list \in DraftLists }
  \cup { <<>>,
         [recommendations |-> JsonArray(<<DraftWalk>>)],
         [recommendations |-> JsonString(<<"n","o","n","e">>), mechanisms |-> SomeMechanisms],
         [recommendations |-> JsonArray(<<DraftWalk>>),
          mechanisms |-> JsonString(<<"i","n","f","l","a","m","m","a","t","i","o","n">>)] }

ExtractionReplies ==
  {GarbageText, UndefinedContent, JsonText(JsonNull, FALSE)}
    \cup {JsonText(JsonObject(a), FALSE) : a \in Analyses}
    \cup {JsonText(JsonObject([recommendations |-> JsonArray(<<DraftOil>>),
                               mechanisms |-> SomeMechanisms]), TRUE)}

\* an item of the simplifier's array: how it treats the text (echo, lower,
\* reworded, missing) and its technicalTerms (absent, good, termless, string)
SimplifiedItem(text, style, terms) ==
  LET base ==
        CASE style = "echo"     -> [original |-> text, simplified |-> text]
          [] style = "lower"    -> [original |-> text, simplified |-> ToLowerCase(text)]
          [] style = "reworded" -> [original |-> text, simplified |-> <<"s","o",":"," ">> \o text]
          [] OTHER              -> [original |-> text]
  IN  CASE terms = "good" ->
             With(base, "technicalTerms",
                  JsonArray(<< [term |-> <<"F","l","o","w">>, explanation |-> <<"x">>],
                               [term |-> <<"f","l","o","w">>, explanation |-> <<"y">>] >>))
        [] terms = "termless" ->
             With(base, "technicalTerms", JsonArray(<< [explanation |-> <<"x">>] >>))
        [] terms = "string" -> With(base, "technicalTerms", JsonString(<<"f","l","o","w">>))
        [] OTHER -> base

SimplifiedArray(texts, n, style, terms) ==
  JsonArray([k \in 1..n |-> SimplifiedItem(texts[k].text, style, terms)])

SimplifyReplies(texts) ==
  {GarbageText, UndefinedContent, JsonText(JsonNull, FALSE),
   JsonText(JsonObject(<<>>), FALSE)}
    \cup {JsonText(SimplifiedArray(texts, Len(texts), style, terms), FALSE) :
            style \in {"echo", "lower", "reworded", "missing"},
            terms \in {"absent", "good", "termless", "string"}}
    \cup {JsonText(SimplifiedArray(texts, Len(texts) - 1, "reworded", "good"), FALSE),
          JsonText(SimplifiedArray(texts, Len(texts), "reworded", "good"), TRUE)}

BudgetReplies ==
  { GarbageText, JsonText(JsonNull, FALSE), JsonText(JsonObject(<<>>), FALSE),
    JsonText(JsonObject([options |-> JsonArray(<<
      [name |-> <<"O","a","t","s">>, description |-> <<"c","h","e","a","p">>, source |-> <<"U","S","D","A">>,
       sourceUrl |-> <<"u">>] >>)]), FALSE) }

DirectReplies == {GarbageText, [kind |-> "text", id |-> 2], UndefinedContent}

-----------------------------------------------------------------------------
(* aiProvider.ts: the steps of a generateAIResponse call *)

\* the completions a provider can answer the pending prompt with
Replies ==
  CASE pc = "extract_wait"  -> ExtractionReplies
    [] pc = "simplify_wait" -> SimplifyReplies(TextsToSimplify(recommendations))
    [] pc = "budget_wait"   -> BudgetReplies
    [] OTHER                -> DirectReplies

\* the loop body up to the await: the request for modelsToTry[i] goes out
IssueCall ==
  /\ gwStatus = "running"
  /\ inFlight = {}
  /\ i <= Len(modelsToTry)
  /\ inFlight' = inFlight \cup {modelsToTry[i]}
  /\ UNCHANGED <<env, config, faults, pc, selected, fn, viaGptOss, modelsToTry, i,
                 rateLimitedModels, calls, gwStatus, gwResult, simVars, plVars, rtVars, srVars>>

\* the awaited request resolves: return completion.choices[0]?.message?.content || ''
CallSucceeds ==
  /\ gwStatus = "running"
  /\ \E model \in inFlight, content \in Replies :
       /\ inFlight' = inFlight \ {model}
       /\ calls' = Append(calls, [model |-> model, ok |-> TRUE, content |-> content])
       /\ gwStatus' = "returned"
       /\ gwResult' = Returned(OrEmpty(content))
  /\ UNCHANGED <<env, config, faults, pc, selected, fn, viaGptOss, modelsToTry, i,
                 rateLimitedModels, simVars, plVars, rtVars, srVars>>

\* the awaited request rejects: the catch block of the running function
CallFails ==
  /\ gwStatus = "running"
  /\ \E model \in inFlight, error \in faults :
       LET limited == PushIfRateLimited(fn, error, rateLimitedModels, model)
           verdict == Catch(fn, error, i, Len(modelsToTry), limited)
       IN  /\ inFlight' = inFlight \ {model}
           /\ calls' = Append(calls, [model |-> model, ok |-> FALSE, error |-> error])
           /\ IF verdict.do = "continue"
                THEN /\ i' = NextIndex(i)
                     /\ rateLimitedModels' = limited
                     /\ UNCHANGED <<fn, viaGptOss, modelsToTry, gwStatus, gwResult>>
              ELSE IF viaGptOss
                \* generateWithOpenAIGPTOSS: catch { return generateWithOpenRouter(...) }
                THEN /\ fn' = "openrouter"
                     /\ viaGptOss' = FALSE
                     /\ modelsToTry' = OpenRouterModelsToTry("openai/gpt-oss-120b")
                     /\ i' = 1
                     /\ rateLimitedModels' = <<>>
                     /\ UNCHANGED <<gwStatus, gwResult>>
              ELSE /\ gwStatus' = "threw"
                   /\ gwResult' = Threw(verdict.error)
                   /\ rateLimitedModels' = limited
                   /\ UNCHANGED <<fn, viaGptOss, modelsToTry, i>>
  /\ UNCHANGED <<env, config, faults, pc, selected, simVars, plVars, rtVars, srVars>>

(* A direct caller of generateAIResponse. *)
DirectCall ==
  /\ pc = "direct"
  /\ gwStatus = "idle"
  /\ generateAIResponse(config)
  /\ pc' = "direct_wait"
  /\ UNCHANGED <<env, config, faults, simVars, plVars, rtVars, srVars>>

DirectDone ==
  /\ pc = "direct_wait"
  /\ gwStatus \in {"returned", "threw"}
  /\ pc' = "direct_done"
  /\ UNCHANGED <<env, config, faults, gwVars, simVars, plVars, rtVars, srVars>>

GatewayIdle ==
  /\ selected = ""
  /\ fn = "none"
  /\ viaGptOss = FALSE
  /\ modelsToTry = <<>>
  /\ i = 1
  /\ rateLimitedModels = <<>>
  /\ inFlight = {}
  /\ calls = <<>>
  /\ gwStatus = "idle"
  /\ gwResult = NoResult

SimilarityIdle ==
  /\ simOriginal = <<>>
  /\ simSimplified = <<>>
  /\ simVerdict = FALSE

PipelineIdle ==
  /\ condition = <<>>
  /\ sources = NoSources
  /\ includeBudget = FALSE
  /\ aiCalls = <<>>
  /\ responseText = NoText
  /\ recommendations = <<>>
  /\ analysisMechanisms = JsonArray(<<>>)
  /\ simplifiedTexts = <<>>
  /\ result = NotSettled

\* no search runs on its own; lastRequestTime starts at 0 in both files
SearchIdle ==
  /\ searches = <<>>
  /\ lastRequestTime = [scholar |-> 0, web |-> 0]
  /\ log = <<>>

\* no request is being served and nothing is cached
RouteIdle ==
  /\ rq = "none"
  /\ body = [kind |-> "none"]
  /\ baseCondition = <<>>
  /\ cause = <<>>
  /\ fetches = <<>>
  /\ cache = <<>>
  /\ now = 0
  /\ response = [kind |-> "none"]
  /\ SearchIdle

\* process.env with only the listed key variables set
EnvKeys(names) == [k \in EnvKeyNames |-> IF k \in names THEN "sk-env" ELSE ""]

InitGateway ==
  /\ env \in [ AI_MODEL : {"", "openrouter"},
               GROQ_MODEL : {"", "openai/gpt-oss-120b", "llama-3.1-8b-instant",
                             "my-own-model"},
               keys : {EnvKeys({"TOGETHER_API_KEY"})} ]
  /\ config \in [ model : {""} \cup AIModels \cup {"gpt-5"},
                  apiKey : {"", "sk-config"} ]
  /\ faults = AllFaults
  /\ pc = "direct"
  /\ GatewayIdle
  /\ SimilarityIdle
  /\ PipelineIdle
  /\ RouteIdle

NextGateway == DirectCall \/ IssueCall \/ CallSucceeds \/ CallFails \/ DirectDone

vars == <<env, config, faults, pc, gwVars, simVars, plVars, rtVars, srVars>>

SpecGateway == InitGateway /\ [][NextGateway]_vars

\* every request a provider has received is answered, and the loop of the
\* running function goes on: the awaits of generateWith* resolve or reject
SpecGatewayFair ==
  /\ SpecGateway
  /\ WF_vars(IssueCall)
  /\ WF_vars(CallSucceeds \/ CallFails)

(* The paraphrase check applied to a pair of strings. *)
MaxTextLen == 3

\* the pairs of texts of at most MaxTextLen characters, and pairs of texts
\* around the length of ten, where one edit is a tenth of the text
SimilarityInputs ==
  LET short      == UNION {[1..k -> {"a", "A", " ", "\t"}] : k \in 0..MaxTextLen}
      Letters(k) == [n \in 1..k |-> "a"]
      long       == { Letters(5) \o gap \o Letters(k) :
                        gap \in {<<" ">>, <<"\t">>, <<" ", " ">>}, k \in {4, 5} }
  IN  (short \X short) \cup (long \X long)

InitSimilarity ==
  /\ \E pair \in SimilarityInputs :
       /\ simOriginal = pair[1]
       /\ simSimplified = pair[2]
  /\ simVerdict = FALSE
  /\ env = [AI_MODEL |-> "", GROQ_MODEL |-> "", keys |-> EnvKeys({})]
  /\ config = [model |-> "", apiKey |-> ""]
  /\ faults = {}
  /\ pc = "similarity"
  /\ GatewayIdle
  /\ PipelineIdle
  /\ RouteIdle

CheckSimplified ==
  /\ pc = "similarity"
  /\ simVerdict' = isActuallySimplified(simOriginal, simSimplified)
  /\ pc' = "similarity_done"
  /\ UNCHANGED <<simOriginal, simSimplified, env, config, faults, gwVars, plVars, rtVars, srVars>>

NextSimilarity == CheckSimplified

SpecSimilarity == InitSimilarity /\ [][NextSimilarity]_vars

-----------------------------------------------------------------------------
(* aiService.ts: analyzeHealthPapers *)

\* the locals of a finished generateAIResponse call are gone
GatewayCleared ==
  /\ selected' = ""
  /\ fn' = "none"
  /\ viaGptOss' = FALSE
  /\ modelsToTry' = <<>>
  /\ i' = 1
  /\ rateLimitedModels' = <<>>
  /\ inFlight' = {}
  /\ calls' = <<>>
  /\ gwStatus' = "idle"
  /\ gwResult' = NoResult

Settled == gwStatus \in {"returned", "threw"}

\* return value
Return(value) ==
  /\ result' = Resolved(value)
  /\ pc' = "done"
  /\ GatewayCleared

\* await generateAIResponse(...) for the named stage
Await(stage, waiting) ==
  /\ generateAIResponse(NoConfig)
  /\ aiCalls' = Append(aiCalls, stage)
  /\ pc' = waiting

\* mutant of FinishAnalysis: the budget stage runs whether asked for or not
FinishAnalysis_AlwaysBudget(recs, mechanisms, entries) ==
  LET mapped == MapSimplified(recs, entries)
  IN  IF ~mapped.ok
        THEN Return(EmptyResult(condition)) /\ UNCHANGED aiCalls
      ELSE /\ result' = Partial([ condition |-> condition,
                                  recommendations |-> mapped.value,
                                  mechanisms |-> mechanisms ])
           /\ Await("budget", "budget_wait")

\* lines 482-527: the mapping back, the result object and the budget stage;
\* a TypeError of the mapping is caught by the outer catch
FinishAnalysis(recs, mechanisms, entries) ==
  LET mapped == MapSimplified(recs, entries)
  IN  IF ~mapped.ok
        THEN Return(EmptyResult(condition)) /\ UNCHANGED aiCalls
      ELSE LET value == [ condition |-> condition, recommendations |-> mapped.value,
                          mechanisms |-> mechanisms ]
           IN  IF includeBudget
                 THEN /\ result' = Partial(value)
                      /\ Await("budget", "budget_wait")
                 ELSE Return(value) /\ UNCHANGED aiCalls

\* mutant of AnalyzeStart: the prompt is sent even without a source document
AnalyzeStart_AlwaysPrompts ==
  /\ pc = "start"
  /\ Await("extraction", "extract_wait")
  /\ UNCHANGED <<env, config, faults, simVars, rtVars, srVars, condition, sources,
                 includeBudget, responseText, recommendations, analysisMechanisms,
                 simplifiedTexts, result>>

\* lines 74-300: no source document returns the empty result at once,
\* otherwise the extraction prompt goes to the gateway
AnalyzeStart ==
  /\ pc = "start"
  /\ IF Len(CombinePapers(sources)) = 0
       THEN Return(EmptyResult(condition)) /\ UNCHANGED aiCalls
       ELSE Await("extraction", "extract_wait") /\ UNCHANGED result
  /\ UNCHANGED <<env, config, faults, simVars, rtVars, srVars, condition, sources, includeBudget,
                 responseText, recommendations, analysisMechanisms, simplifiedTexts>>

\* lines 300-479: the extraction call has settled
ExtractionSettled ==
  /\ pc = "extract_wait"
  /\ Settled
  /\ responseText' = IF gwResult.kind = "content" THEN gwResult.content ELSE NoText
  /\ LET extracted == ExtractAnalysis(gwResult, condition, CombinePapers(sources))
     IN  IF ~extracted.ok
           THEN /\ Return(EmptyResult(condition))
                /\ UNCHANGED <<aiCalls, recommendations, analysisMechanisms>>
         ELSE /\ recommendations' = extracted.value.recommendations
              /\ analysisMechanisms' = extracted.value.mechanisms
              /\ IF Len(TextsToSimplify(extracted.value.recommendations)) > 0
                   THEN Await("simplification", "simplify_wait") /\ UNCHANGED result
                   ELSE FinishAnalysis(extracted.value.recommendations,
                                       extracted.value.mechanisms, <<>>)
  /\ UNCHANGED <<env, config, faults, simVars, rtVars, srVars, condition, sources, includeBudget,
                 simplifiedTexts>>

\* lines 469-527: simplifyMultipleTexts has settled
SimplificationSettled ==
  /\ pc = "simplify_wait"
  /\ Settled
  /\ LET entries == simplifyMultipleTexts(TextsToSimplify(recommendations), gwResult)
     IN  /\ simplifiedTexts' = entries
         /\ FinishAnalysis(recommendations, analysisMechanisms, entries)
  /\ UNCHANGED <<env, config, faults, simVars, rtVars, srVars, condition, sources, includeBudget,
                 responseText, recommendations, analysisMechanisms>>

\* lines 524-527: generateBudgetOptions has settled
BudgetSettled ==
  /\ pc = "budget_wait"
  /\ Settled
  /\ Return(With(result.value, "budgetOptions", generateBudgetOptions(gwResult)))
  /\ UNCHANGED <<env, config, faults, simVars, rtVars, srVars, condition, sources, includeBudget,
                 aiCalls, responseText, recommendations, analysisMechanisms,
                 simplifiedTexts>>

Conditions == { <<"f","l","u">> }

Init ==
  /\ env \in { [AI_MODEL |-> "", GROQ_MODEL |-> "", keys |-> EnvKeys(names)] :
                 names \in {{"GROQ_API_KEY"}, {}} }
  /\ config = NoConfig
  /\ faults = {ErrSdk429, ErrOther}
  /\ pc = "start"
  /\ GatewayIdle
  /\ SimilarityIdle
  /\ RouteIdle
  /\ condition \in Conditions
  /\ sources \in SourceChoices
  /\ includeBudget \in BOOLEAN
  /\ aiCalls = <<>>
  /\ responseText = NoText
  /\ recommendations = <<>>
  /\ analysisMechanisms = JsonArray(<<>>)
  /\ simplifiedTexts = <<>>
  /\ result = NotSettled

Next ==
  \/ AnalyzeStart
  \/ IssueCall
  \/ CallSucceeds
  \/ CallFails
  \/ ExtractionSettled
  \/ SimplificationSettled
  \/ BudgetSettled

Spec == Init /\ [][Next]_vars

-----------------------------------------------------------------------------
(* aiService.ts lines 305-458: the validation chain on one draft *)

\* the condition, the source documents and the one draft of a run
ValidateCases ==
  LET ValidateConditions ==
        { <<"f","l","u">>, <<"c","o","n","c","u","s","s","i","o","n">>, <<"d","i","a","b","e","t","e","s">>, <<"T","B","I">>, <<"h","y","p","e","r","g","l","y","c","e","m","i","a">>, <<"b","r","a","i","n"," ","g","l","u","c","o","s","e">> }

      ValidateNames ==
        { <<"E","x","e","r","c","i","s","e">>, <<"S","u","b","m","a","x","i","m","a","l"," ","E","x","e","r","c","i","s","e">>, <<"R","u","n","n","i","n","g">>, <<"B","e","n","c","h"," ","P","r","e","s","s">>,
          <<"D","i","e","t","a","r","y"," ","I","n","t","e","r","v","e","n","t","i","o","n">>, <<"P","h","y","s","i","c","a","l"," ","a","c","t","i","v","i","t","y">>, <<"P","H","Y","S","I","C","A","L"," ","A","C","T","I","V","I","T","Y">>, <<>>,
          <<" ","D","i","e","t"," ">>, <<"Y","o","g","a"," ","(","G","e","n","e","r","a","l",")">>, <<"T","H","E","R","A","P","Y">>, <<"n","u","t","r","i","t","i","o","n","a","l"," "," ","i","n","t","e","r","v","e","n","t","i","o","n","s">> }

      ValidateMechanisms ==
        { <<"I","n","c","r","e","a","s","e","s"," ","i","n","s","u","l","i","n"," ","s","e","n","s","i","t","i","v","i","t","y">>, <<"R","e","d","u","c","e","s"," ","n","e","u","r","o","i","n","f","l","a","m","m","a","t","i","o","n">>,
          <<"g","l","u","c","o","s","e"," ","a","n","d"," ","c","o","g","n","i","t","i","v","e"," ","g","a","i","n","s">>, <<"l","e","s","s"," ","i","n","s","u","l","i","n"," ","i","n"," ","T","B","I">>,
          <<"a","x","o","n","a","l"," ","i","n"," ","h","y","p","e","r","g","l","y","c","e","m","i","a">>, <<"c","a","n"," ","h","e","l","p">>, <<"A","i","d","s"," ","F","l","o","w">> }

      PlaceholderValues == { <<"N","o","t"," ","s","p","e","c","i","f","i","e","d">>, <<"N","O","T"," ","R","E","P","O","R","T","E","D">>, <<"u","n","k","n","o","w","n">>, <<"N","/","A">> }
      QuantityValues == { <<"5","0","0"," ","m","g">>, <<"1"," ","b","a","n","a","n","a">>, <<"3"," ","x"," ","1","0">> }

      PaperWithDoi == [pmid |-> <<"p","1">>, title |-> <<"T","1">>, url |-> <<"u","1">>, doi |-> <<"d","1">>]
      PaperWithoutDoi == [pmid |-> <<"p","1">>, title |-> <<"T","1">>, url |-> <<"u","1">>]
      WebPage == [title |-> <<"T","2">>, url |-> <<"u","2">>]

      ValidateSources ==
        { [NoSources EXCEPT !.pubmed = <<PaperWithDoi>>],
          [NoSources EXCEPT !.pubmed = <<PaperWithoutDoi>>],
          [NoSources EXCEPT !.web = <<WebPage>>],
          [NoSources EXCEPT !.pubmed = <<PaperWithoutDoi>>, !.web = <<WebPage>>] }

      \* an evidence entry as the model writes it: any of the four keys can be missing
      EvidenceDrafts ==
        LET Opt(key, values) == {<<>>} \cup {[k \in {key} |-> v] : v \in values}
            Join(a, b) == [k \in DOMAIN a \cup DOMAIN b |-> IF k \in DOMAIN a THEN a[k] ELSE b[k]]
        IN  { Join(Join(id, title), Join(url, doi)) :
                id \in Opt("paperId", {<<"p","1">>, <<"u","2">>, <<"p","9">>}),
                title \in Opt("paperTitle", {<<"T","1">>, <<"T","2">>, <<"T","9">>}),
                url \in Opt("paperUrl", {<<"x">>}),
                doi \in Opt("doi", {<<"d","x">>}) }

      \* a chunk for the exercise details and for the intake details
      EvChunks ==
        [ paperId |-> <<"p","1">>, paperTitle |-> <<"T","1">>,
          exerciseDetailsChunk |-> <<"3"," ","x"," ","1","0",","," ","5","0","0"," ","m","g",","," ","1"," ","b","a","n","a","n","a">>,
          dosageDetailsChunk |-> <<"5","0","0"," ","m","g",","," ","1"," ","b","a","n","a","n","a",","," ","3"," ","x"," ","1","0">> ]

      RunningDraft ==
        [ type |-> "activity", name |-> <<"R","u","n","n","i","n","g">>, category |-> "beneficial",
          mechanism |-> <<"A","i","d","s"," ","F","l","o","w">>, summary |-> <<"R","u","n">>, evidence |-> <<>> ]
  IN  { [cond |-> c, src |-> [NoSources EXCEPT !.pubmed = <<PaperWithDoi>>],
         draft |-> [RunningDraft EXCEPT !.name = n, !.mechanism = mech]] :
          c \in ValidateConditions, n \in ValidateNames, mech \in ValidateMechanisms }
      \cup
      { [cond |-> c, src |-> [NoSources EXCEPT !.pubmed = <<PaperWithDoi>>],
         draft |-> Delete([RunningDraft EXCEPT !.name = n], {"mechanism"})] :
          c \in ValidateConditions, n \in ValidateNames }
      \cup
      { [cond |-> <<"f","l","u">>, src |-> [NoSources EXCEPT !.pubmed = <<PaperWithDoi>>],
         draft |-> With([RunningDraft EXCEPT !.evidence = chunks], f, v)] :
          f \in PlaceholderFields, v \in PlaceholderValues \cup QuantityValues,
          chunks \in {<<>>, <<EvChunks>>} }
      \cup
      { [cond |-> <<"f","l","u">>, src |-> s, draft |-> [RunningDraft EXCEPT !.evidence = <<ev>>]] :
          s \in ValidateSources, ev \in EvidenceDrafts }

\* the extraction call has returned the analysis of one draft
InitValidate ==
  \E case \in ValidateCases :
    LET reply == JsonText(JsonObject([recommendations |-> JsonArray(<<case.draft>>),
                                      mechanisms |-> SomeMechanisms]), FALSE)
    IN  /\ env = [AI_MODEL |-> "", GROQ_MODEL |-> "", keys |-> EnvKeys({"GROQ_API_KEY"})]
        /\ config = NoConfig
        /\ faults = {}
        /\ pc = "extract_wait"
        /\ selected = "groq-llama"
        /\ fn = "groq"
        /\ viaGptOss = FALSE
        /\ modelsToTry = GroqModelsToTry
        /\ i = 1
        /\ rateLimitedModels = <<>>
        /\ inFlight = {}
        /\ calls = << [model |-> GroqModelsToTry[1], ok |-> TRUE, content |-> reply] >>
        /\ gwStatus = "returned"
        /\ gwResult = Returned(OrEmpty(reply))
        /\ SimilarityIdle
        /\ RouteIdle
        /\ condition = case.cond
        /\ sources = case.src
        /\ includeBudget = FALSE
        /\ aiCalls = <<"extraction">>
        /\ responseText = NoText
        /\ recommendations = <<>>
        /\ analysisMechanisms = JsonArray(<<>>)
        /\ simplifiedTexts = <<>>
        /\ result = NotSettled

NextValidate == ExtractionSettled

SpecValidate == InitValidate /\ [][NextValidate]_vars

-----------------------------------------------------------------------------
(* app/api/analyze/route.ts: the condition and its cause *)

\* the number of white space characters of s from position p on
RECURSIVE SpaceRun(_, _)
SpaceRun(s, p) ==
  IF p <= Len(s) /\ IsSpace(s[p]) THEN 1 + SpaceRun(s, p + 1) ELSE 0

\* the length of the match of /\s+(?:after|from|due to|caused by|following)\s+/
\* that starts at position p of s, 0 when there is none: \s+ takes the whole
\* run, no connector starts with white space
ConnectorMatch(s, p) ==
  LET before == SpaceRun(s, p)
      q      == p + before
      hits   == { c \in {<<"a","f","t","e","r">>, <<"f","r","o","m">>, <<"d","u","e"," ","t","o">>, <<"c","a","u","s","e","d"," ","b","y">>, <<"f","o","l","l","o","w","i","n","g">>} :
                    q + Len(c) - 1 <= Len(s) /\ SubSeq(s, q, q + Len(c) - 1) = c }
      word   == CHOOSE c \in hits : TRUE
      after  == SpaceRun(s, q + Len(word))
  IN  IF before = 0 \/ hits = {} THEN 0
      ELSE IF after = 0 THEN 0
      ELSE before + Len(word) + after

\* s.split(/\s+(?:after|from|due to|caused by|following)\s+/i) of a lowercased s
RECURSIVE SplitOnConnector(_)
SplitOnConnector(s) ==
  LET starts == {p \in 1..Len(s) : ConnectorMatch(s, p) > 0}
      first  == CHOOSE p \in starts : \A m \in starts : p <= m
  IN  IF starts = {} THEN <<s>>
      ELSE <<SubSeq(s, 1, first - 1)>>
             \o SplitOnConnector(SubSeq(s, first + ConnectorMatch(s, first), Len(s)))

\* parts.join(' ')
RECURSIVE JoinWithSpace(_)
JoinWithSpace(parts) ==
  IF Len(parts) = 0 THEN <<>>
  ELSE IF Len(parts) = 1 THEN parts[1]
  ELSE parts[1] \o <<" ">> \o JoinWithSpace(Tail(parts))

\* lines 20-23: [hasCause, baseCondition, cause], cause <<>> for null and
\* <<text>> for a string
SplitCondition(raw) ==
  LET conditionParts == SplitOnConnector(ToLowerCase(raw))
      hasCause       == Len(conditionParts) > 1
  IN  [ hasCause |-> hasCause,
        baseCondition |-> IF hasCause THEN Trim(conditionParts[1]) ELSE raw,
        cause |-> IF hasCause THEN <<Trim(JoinWithSpace(Tail(conditionParts)))>>
                  ELSE <<>> ]

\* lines 30-42: the three queries and the result count
SearchQueries(raw) ==
  LET split == SplitCondition(raw)
      head  == IF split.hasCause THEN raw \o <<" ","O","R"," ">> \o split.baseCondition ELSE raw
  IN  [ pubmed  |-> head \o <<" ","h","e","a","l","t","h"," ","b","e","n","e","f","i","t","s"," ","r","i","s","k","s"," ","f","o","o","d","s"," ","a","c","t","i","v","i","t","i","e","s">>,
        scholar |-> head \o <<" ","h","e","a","l","t","h"," ","n","u","t","r","i","t","i","o","n"," ","e","x","e","r","c","i","s","e">>,
        web     |-> head \o <<" ","h","e","a","l","t","h"," ","b","e","n","e","f","i","t","s"," ","r","i","s","k","s">>,
        resultCount |-> IF split.hasCause THEN 12 ELSE 8 ]

(* lib/utils/cache.ts: SimpleCache.  An entry is [data, timestamp,         *)
(* expiresIn]; the cache is a function from keys to entries.               *)

DefaultTTL == 3600000

\* getKey: `${service}:${query.toLowerCase().trim()}`
CacheKey(service, query) == service \o <<":">> \o Trim(ToLowerCase(query))

Expired_AtTTL(entry, t) == t - entry.timestamp >= entry.expiresIn
Expired(entry, t) == t - entry.timestamp > entry.expiresIn

\* get: <<>> for null, <<data>> otherwise
CacheGet(c, service, query, t) ==
  LET key == CacheKey(service, query)
  IN  IF key \notin DOMAIN c THEN <<>>
      ELSE IF Expired(c[key], t) THEN <<>>
      ELSE <<c[key].data>>

\* get deletes the entry it finds expired
CacheAfterGet(c, service, query, t) ==
  LET key == CacheKey(service, query)
  IN  IF key \in DOMAIN c /\ Expired(c[key], t)
        THEN [k \in DOMAIN c \ {key} |-> c[k]]
        ELSE c

\* set(service, query, data) with the default TTL
CacheSet(c, service, query, data, t) ==
  LET key == CacheKey(service, query)
  IN  [k \in DOMAIN c \cup {key} |->
         IF k = key THEN [data |-> data, timestamp |-> t, expiresIn |-> DefaultTTL]
         ELSE c[k]]

(* lib/services: searchPubMed, searchGoogleScholar, searchWebContent *)

Searches == {"pubmed", "scholar", "web"}

\* the service name each search passes to the cache
CacheService(search) ==
  CASE search = "pubmed"  -> <<"p","u","b","m","e","d">>
    [] search = "scholar" -> <<"g","o","o","g","l","e","S","c","h","o","l","a","r">>
    [] OTHER              -> <<"w","e","b","C","r","a","w","l","e","r">>

\* maxResults in a template string
NumberText(n) ==
  LET digit(d) == <<SubSeq(<<"0","1","2","3","4","5","6","7","8","9">>, d + 1, d + 1)[1]>>
  IN  IF n < 10 THEN digit(n) ELSE digit(n \div 10) \o digit(n % 10)

\* cacheKey: `pubmed:${query}:${maxResults}`, `googlescholar:...`, `web:...`
SearchCacheKey(search, query, maxResults) ==
  (CASE search = "pubmed"  -> <<"p","u","b","m","e","d",":">>
     [] search = "scholar" -> <<"g","o","o","g","l","e","s","c","h","o","l","a","r",":">>
     [] OTHER              -> <<"w","e","b",":">>)
    \o query \o <<":">> \o NumberText(maxResults)

\* { papers: [], total: 0 } and { contents: [], total: 0 }
EmptySearchResult == [docs |-> <<>>, total |-> 0]

\* a search whose first request is out, one that has returned
Pending(query, maxResults) ==
  [st |-> "pending", stage |-> 1, query |-> query, maxResults |-> maxResults,
   held |-> <<>>, total |-> 0]
Done(value) == [st |-> "done", result |-> value, logged |-> FALSE]

\* the catch block of a search (pubmed.ts 79-82, googleScholar.ts 79-82): the
\* error is logged and the empty result returned
SearchCatch_Rethrow(search) == [st |-> "rejected", logged |-> TRUE]
SearchCatch(search) == [st |-> "done", result |-> EmptySearchResult, logged |-> TRUE]

\* the search up to its first await: the cached result, or the first request
StartSearch(search, query, maxResults, c, t) ==
  LET cached == CacheGet(c, CacheService(search),
                         SearchCacheKey(search, query, maxResults), t)
  IN  IF cached # <<>> THEN Done(cached[1]) ELSE Pending(query, maxResults)

\* the cache after the cache.get of the search
CacheAfterStart(search, query, maxResults, c, t) ==
  CacheAfterGet(c, CacheService(search), SearchCacheKey(search, query, maxResults), t)

\* the search stores its result and returns it
StoreAndReturn(search, value) ==
  /\ fetches' = [fetches EXCEPT ![search] = Done(value)]
  /\ cache' = CacheSet(cache, CacheService(search),
                       SearchCacheKey(search, fetches[search].query,
                                      fetches[search].maxResults),
                       value, now)

\* the search returns without storing: the catch block, or no pmid
ReturnOnly(search, settled) ==
  /\ fetches' = [fetches EXCEPT ![search] = settled]
  /\ UNCHANGED cache

Waiting(search, stage) ==
  /\ rq = "fetching"
  /\ fetches[search].st = "pending"
  /\ fetches[search].stage = stage

\* what the services answer: no answer (an error), or these documents
SearchAnswers(search) ==
  CASE search = "pubmed" ->
         { <<>>, << [pmid |-> <<"p","1">>, title |-> <<"T","1">>, url |-> <<"u","1">>, doi |-> <<"d","1">>] >> }
    [] search = "scholar" -> { <<>>, << [title |-> <<"T","3">>, url |-> <<"u","3">>] >> }
    [] OTHER -> { <<>>, << [title |-> <<"T","2">>, url |-> <<"u","2">>] >> }

\* pubmed.ts lines 47-52, 79-82: the esearch request is answered
PubMedSearchResponds ==
  /\ Waiting("pubmed", 1)
  /\ \E outcome \in {"error", "no pmid", "pmids"} :
       IF outcome = "pmids"
         THEN /\ fetches' = [fetches EXCEPT !.pubmed.stage = 2, !.pubmed.total = 40]
              /\ UNCHANGED cache
       ELSE IF outcome = "no pmid"
         THEN ReturnOnly("pubmed", Done(EmptySearchResult))
       ELSE ReturnOnly("pubmed", SearchCatch("pubmed"))
  /\ UNCHANGED <<env, config, faults, pc, gwVars, simVars, plVars, srVars,
                 rq, body, baseCondition, cause, now, response>>

\* pubmed.ts lines 54-82: the efetch request is answered
PubMedFetchResponds ==
  /\ Waiting("pubmed", 2)
  /\ \E ok \in BOOLEAN, papers \in SearchAnswers("pubmed") :
       IF ok THEN StoreAndReturn("pubmed",
                                 [docs |-> papers, total |-> fetches.pubmed.total])
       ELSE ReturnOnly("pubmed", SearchCatch("pubmed"))
  /\ UNCHANGED <<env, config, faults, pc, gwVars, simVars, plVars, srVars,
                 rq, body, baseCondition, cause, now, response>>

\* googleScholar.ts lines 48-82: the request is answered
ScholarResponds ==
  /\ Waiting("scholar", 1)
  /\ \E ok \in BOOLEAN, papers \in SearchAnswers("scholar") :
       IF ok THEN StoreAndReturn("scholar", [docs |-> papers, total |-> Len(papers)])
       ELSE ReturnOnly("scholar", SearchCatch("scholar"))
  /\ UNCHANGED <<env, config, faults, pc, gwVars, simVars, plVars, srVars,
                 rq, body, baseCondition, cause, now, response>>

\* webCrawler.ts lines 58-85: one of the two site searches is answered; a
\* failure is skipped
WebSourceResponds ==
  /\ \E stage \in {1, 2} :
       /\ Waiting("web", stage)
       /\ \E ok \in BOOLEAN, pages \in SearchAnswers("web") :
            fetches' = [fetches EXCEPT
                          !.web.stage = stage + 1,
                          !.web.held = IF ok THEN @ \o pages ELSE @]
  /\ UNCHANGED <<env, config, faults, pc, gwVars, simVars, plVars, srVars,
                 rq, body, baseCondition, cause, cache, now, response>>

\* allContents.slice(0, maxResults)
Slice(list, n) == SubSeq(list, 1, IF Len(list) < n THEN Len(list) ELSE n)

\* webCrawler.ts lines 88-121: the instant answer request is answered
WebAnswerResponds ==
  /\ Waiting("web", 3)
  /\ \E ok \in BOOLEAN, pages \in SearchAnswers("web") :
       LET allContents == IF ok THEN fetches.web.held \o pages ELSE fetches.web.held
       IN  StoreAndReturn("web", [docs |-> Slice(allContents, fetches.web.maxResults),
                                  total |-> Len(allContents)])
  /\ UNCHANGED <<env, config, faults, pc, gwVars, simVars, plVars, srVars,
                 rq, body, baseCondition, cause, now, response>>

(* app/api/analyze/route.ts: POST *)

NoResponse == [kind |-> "none"]
JsonResponse(status, value) == [kind |-> "json", status |-> status, value |-> value]

\* the body is an object whose condition is a non-empty string
Accepted(request) ==
  /\ request.kind = "object"
  /\ Has(request.fields, "condition")
  /\ request.fields.condition.t = "string"
  /\ request.fields.condition.chars # <<>>

\* lines 8-47: the body is read and checked, the condition is split and the
\* three searches are started, each running up to its first await
RouteReceive ==
  /\ rq = "request"
  /\ IF body.kind = "invalid"
       \* request.json() rejects: the catch block
       THEN /\ response' = JsonResponse(500, "Failed to analyze condition")
            /\ rq' = "responded"
            /\ UNCHANGED <<baseCondition, cause, fetches, cache>>
     ELSE IF ~Accepted(body)
       THEN /\ response' = JsonResponse(400, "Condition is required")
            /\ rq' = "responded"
            /\ UNCHANGED <<baseCondition, cause, fetches, cache>>
     ELSE \E split \in {SplitCondition(body.fields.condition.chars)},
             queries \in {SearchQueries(body.fields.condition.chars)} :
          \E c1 \in {CacheAfterStart("pubmed", queries.pubmed, queries.resultCount,
                                      cache, now)} :
          \E c2 \in {CacheAfterStart("scholar", queries.scholar, queries.resultCount,
                                      c1, now)} :
              /\ baseCondition' = split.baseCondition
              /\ cause' = split.cause
              /\ fetches' =
                   [ pubmed  |-> StartSearch("pubmed", queries.pubmed,
                                             queries.resultCount, cache, now),
                     scholar |-> StartSearch("scholar", queries.scholar,
                                             queries.resultCount, c1, now),
                     web     |-> StartSearch("web", queries.web,
                                             queries.resultCount, c2, now) ]
              /\ cache' = CacheAfterStart("web", queries.web, queries.resultCount,
                                          c2, now)
              /\ rq' = "fetching"
              /\ UNCHANGED response
  /\ UNCHANGED <<env, config, faults, pc, gwVars, simVars, plVars, srVars, body, now>>

\* lines 43-57: Promise.all has resolved, analyzeHealthPapers is called
RouteJoin ==
  /\ rq = "fetching"
  /\ \A search \in Searches : fetches[search].st = "done"
  /\ condition' = body.fields.condition.chars
  /\ sources' = [ pubmed   |-> fetches.pubmed.result.docs,
                  semantic |-> <<>>,
                  scholar  |-> fetches.scholar.result.docs,
                  web      |-> fetches.web.result.docs ]
  /\ includeBudget' = (Has(body.fields, "includeBudget") /\ body.fields.includeBudget)
  /\ pc' = "start"
  /\ rq' = "analysis"
  /\ UNCHANGED <<env, config, faults, gwVars, simVars, srVars, aiCalls, responseText,
                 recommendations, analysisMechanisms, simplifiedTexts, result,
                 body, baseCondition, cause, fetches, cache, now, response>>

\* lines 59-68: the analysis is back, the response is sent
RouteRespond ==
  /\ rq = "analysis"
  /\ pc = "done"
  /\ response' =
       JsonResponse(200,
         [ success |-> TRUE,
           analysis |-> result.value,
           searchStats |->
             [ pubmed |-> fetches.pubmed.result.total,
               googleScholar |-> fetches.scholar.result.total,
               web |-> fetches.web.result.total,
               analyzed |-> Len(fetches.pubmed.result.docs)
                              + Len(fetches.scholar.result.docs)
                              + Len(fetches.web.result.docs) ] ])
  /\ rq' = "responded"
  /\ UNCHANGED <<env, config, faults, pc, gwVars, simVars, plVars, srVars,
                 body, baseCondition, cause, fetches, cache, now>>

\* a request arrives at a server whose cache is empty or holds the Google
\* Scholar result of the same search; no model credential is configured
RouteRequests ==
  { [kind |-> "invalid"],
    [kind |-> "object", fields |-> <<>>],
    [kind |-> "object", fields |-> [condition |-> JsonString(<<>>)]],
    [kind |-> "object", fields |-> [condition |-> JsonArray(<<>>)]],
    [kind |-> "object", fields |-> [condition |-> JsonString(<<"f","l","u">>)]],
    [kind |-> "object",
     fields |-> [condition |-> JsonString(<<"C","o","n","c","u","s","s","i","o","n"," ","a","f","t","e","r"," ","a"," ","f","a","l","l">>),
                 includeBudget |-> TRUE]] }

InitRoute ==
  /\ env = [AI_MODEL |-> "", GROQ_MODEL |-> "", keys |-> EnvKeys({})]
  /\ config = NoConfig
  /\ faults = {}
  /\ pc = "route"
  /\ GatewayIdle
  /\ SimilarityIdle
  /\ PipelineIdle
  /\ rq = "request"
  /\ body \in RouteRequests
  /\ baseCondition = <<>>
  /\ cause = <<>>
  /\ fetches = <<>>
  /\ now = 0
  /\ cache \in
       { <<>>,
         CacheSet(<<>>, <<"g","o","o","g","l","e","S","c","h","o","l","a","r">>,
                  SearchCacheKey("scholar", SearchQueries(<<"f","l","u">>).scholar, 8),
                  [docs |-> << [title |-> <<"T","4">>, url |-> <<"u","4">>] >>, total |-> 1], 0) }
  /\ response = NoResponse
  /\ SearchIdle

NextRoute ==
  \/ RouteReceive
  \/ PubMedSearchResponds
  \/ PubMedFetchResponds
  \/ ScholarResponds
  \/ WebSourceResponds
  \/ WebAnswerResponds
  \/ RouteJoin
  \/ AnalyzeStart
  \/ ExtractionSettled
  \/ RouteRespond

SpecRoute == InitRoute /\ [][NextRoute]_vars

-----------------------------------------------------------------------------
(* app/api/analyze/route.ts lines 9-23 over many conditions *)

\* the longest condition, in words
MaxWords == 4

\* conditions made of up to MaxWords of these words
ConditionTexts ==
  LET words == { <<"a">>, <<" ">>, <<"\t">>, <<"a","f","t","e","r">>, <<"F","r","o","m">>, <<"d","u","e"," ","t","o">>,
                 <<"c","a","u","s","e","d"," ","b","y">>, <<"f","o","l","l","o","w","i","n","g">> }
      RECURSIVE texts(_)
      texts(n) == IF n = 0 THEN {<<>>}
                  ELSE {<<>>} \cup {w \o rest : w \in words, rest \in texts(n - 1)}
  IN  texts(MaxWords)

\* a request with one of the conditions arrives at a server with an empty cache
InitCondition ==
  /\ env = [AI_MODEL |-> "", GROQ_MODEL |-> "", keys |-> EnvKeys({})]
  /\ config = NoConfig
  /\ faults = {}
  /\ pc = "route"
  /\ GatewayIdle
  /\ SimilarityIdle
  /\ PipelineIdle
  /\ rq = "request"
  /\ body \in { [kind |-> "object", fields |-> [condition |-> JsonString(text)]] :
                  text \in ConditionTexts }
  /\ baseCondition = <<>>
  /\ cause = <<>>
  /\ fetches = <<>>
  /\ now = 0
  /\ cache = <<>>
  /\ response = NoResponse
  /\ SearchIdle

NextCondition == RouteReceive

SpecCondition == InitCondition /\ [][NextCondition]_vars
-----------------------------------------------------------------------------
(* lib/utils/cache.ts: SimpleCache under set, get and the passing of time *)

\* the number of set calls of a run
MaxSets == 2

\* the instants at which Date.now() is read: around one TTL
ClockInstants == {0, 1, DefaultTTL, DefaultTTL + 1}

\* the service and the query of a call
CacheTargets ==
  { <<<<"p","u","b","m","e","d">>, <<"f","l","u",":","8">>>>, <<<<"p","u","b","m","e","d">>, <<" ","F","l","u",":","8"," ">>>>, <<<<"p","u","b","m","e","d">>, <<"c","o","l","d",":","8">>>>,
    <<<<"g","o","o","g","l","e","S","c","h","o","l","a","r">>, <<"f","l","u",":","8">>>> }
CacheData == { EmptySearchResult,
               [docs |-> << [title |-> <<"T","4">>, url |-> <<"u","4">>] >>, total |-> 1] }

\* cache.set(service, query, data)
CacheSetCall ==
  /\ rq = "cache"
  /\ Len(log) < MaxSets
  /\ \E target \in CacheTargets, data \in CacheData :
       /\ cache' = CacheSet(cache, target[1], target[2], data, now)
       /\ log' = Append(log, [op |-> "set", service |-> target[1], query |-> target[2],
                              data |-> data, at |-> now])
       /\ response' = [kind |-> "set"]
  /\ UNCHANGED <<env, config, faults, pc, gwVars, simVars, plVars,
                 rq, body, baseCondition, cause, fetches, now,
                 searches, lastRequestTime>>

\* cache.get(service, query): what it returned, <<>> for null
CacheGetCall ==
  /\ rq = "cache"
  /\ \E target \in CacheTargets :
       /\ response' = [kind |-> "get", service |-> target[1], query |-> target[2],
                       value |-> CacheGet(cache, target[1], target[2], now)]
       /\ cache' = CacheAfterGet(cache, target[1], target[2], now)
  /\ UNCHANGED <<env, config, faults, pc, gwVars, simVars, plVars, srVars,
                 rq, body, baseCondition, cause, fetches, now>>

\* time passes; response holds what the call just made returned
ClockAdvances ==
  /\ rq = "cache"
  /\ \E t \in ClockInstants : t > now /\ now' = t
  /\ response' = NoResponse
  /\ UNCHANGED <<env, config, faults, pc, gwVars, simVars, plVars, srVars,
                 rq, body, baseCondition, cause, fetches, cache>>

InitCache ==
  /\ env = [AI_MODEL |-> "", GROQ_MODEL |-> "", keys |-> EnvKeys({})]
  /\ config = NoConfig
  /\ faults = {}
  /\ pc = "route"
  /\ GatewayIdle
  /\ SimilarityIdle
  /\ PipelineIdle
  /\ rq = "cache"
  /\ body = [kind |-> "none"]
  /\ baseCondition = <<>>
  /\ cause = <<>>
  /\ fetches = <<>>
  /\ cache = <<>>
  /\ now = 0
  /\ response = NoResponse
  /\ SearchIdle

NextCache == CacheSetCall \/ CacheGetCall \/ ClockAdvances

SpecCache == InitCache /\ [][NextCache]_vars
-----------------------------------------------------------------------------
(* googleScholar.ts and webCrawler.ts: searches that run side by side, with *)
(* the pacing on lastRequestTime, the cache and a clock                     *)

\* const MIN_REQUEST_INTERVAL of googleScholar.ts and of webCrawler.ts, and the
\* delay between two sources of the web search, in milliseconds
ScholarMinRequestInterval == 1000
WebMinRequestInterval == 500
SourceDelay == 200

MinRequestInterval(collab) ==
  IF collab = "scholar" THEN ScholarMinRequestInterval ELSE WebMinRequestInterval

\* the number of searches of a run
MaxCalls == 3

\* the server has been up for a while when the first search comes in; the
\* instants the clock is read at afterwards
FirstInstant == ScholarMinRequestInterval
SearchInstants ==
  {FirstInstant + d : d \in {0, SourceDelay, WebMinRequestInterval,
                             ScholarMinRequestInterval}}

SearchQueryPool == {<<"f","l","u">>}

\* a search that is waiting for a timer, one whose request is out, one that
\* has returned; failed counts the requests of the search that have failed
Sleeping(collab, query, st, stage, held, failed, wake) ==
  [collab |-> collab, query |-> query, st |-> st, stage |-> stage, held |-> held,
   failed |-> failed, wake |-> wake]
Requesting(collab, query, stage, held, failed) ==
  [collab |-> collab, query |-> query, st |-> "requesting", stage |-> stage,
   held |-> held, failed |-> failed]
Returned2(collab, query, settled, failed) ==
  [collab |-> collab, query |-> query, st |-> "done", result |-> settled.result,
   logged |-> settled.logged, failed |-> failed]

\* an outbound request of the collaborator goes out now
RequestGoesOut(collab) ==
  log' = Append(log, [op |-> "request", collab |-> collab, at |-> now])

\* lines 31-46 of both files: the cache is asked, and on a miss the search
\* waits for the rest of the interval or stamps lastRequestTime and sends
SearchBegins ==
  /\ rq = "searching"
  /\ Len(searches) < MaxCalls
  /\ \E collab \in {"scholar", "web"}, query \in SearchQueryPool :
     \E cached \in {CacheGet(cache, CacheService(collab),
                             SearchCacheKey(collab, query, 8), now)} :
       /\ cache' = CacheAfterGet(cache, CacheService(collab),
                                 SearchCacheKey(collab, query, 8), now)
       /\ IF cached # <<>>
            THEN /\ searches' = Append(searches, Returned2(collab, query, Done(cached[1]), 0))
                 /\ UNCHANGED <<lastRequestTime, log>>
          ELSE IF now - lastRequestTime[collab] < MinRequestInterval(collab)
            THEN /\ searches' =
                      Append(searches,
                             Sleeping(collab, query, "sleeping", 0, <<>>, 0,
                                      now + (MinRequestInterval(collab)
                                               - (now - lastRequestTime[collab]))))
                 /\ UNCHANGED <<lastRequestTime, log>>
          ELSE /\ searches' = Append(searches, Requesting(collab, query, 1, <<>>, 0))
               /\ lastRequestTime' = [lastRequestTime EXCEPT ![collab] = now]
               /\ RequestGoesOut(collab)
  /\ UNCHANGED <<env, config, faults, pc, gwVars, simVars, plVars,
                 rq, body, baseCondition, cause, fetches, now, response>>

\* line 44-46: the timer has fired, lastRequestTime = Date.now(), the request
\* goes out
SearchWakes ==
  /\ rq = "searching"
  /\ \E id \in DOMAIN searches :
       /\ searches[id].st = "sleeping"
       /\ now >= searches[id].wake
       /\ searches' = [searches EXCEPT
                         ![id] = Requesting(searches[id].collab, searches[id].query,
                                            1, <<>>, 0)]
       /\ lastRequestTime' = [lastRequestTime EXCEPT ![searches[id].collab] = now]
       /\ RequestGoesOut(searches[id].collab)
  /\ UNCHANGED <<env, config, faults, pc, gwVars, simVars, plVars,
                 rq, body, baseCondition, cause, fetches, cache, now, response>>

\* the search stores its result and returns it
SearchStores(id, value, failed) ==
  /\ searches' = [searches EXCEPT
                    ![id] = Returned2(searches[id].collab, searches[id].query,
                                      Done(value), failed)]
  /\ cache' = CacheSet(cache, CacheService(searches[id].collab),
                       SearchCacheKey(searches[id].collab, searches[id].query, 8),
                       value, now)

\* googleScholar.ts lines 48-82: the request is answered or fails
ScholarAnswers ==
  /\ rq = "searching"
  /\ \E id \in DOMAIN searches :
       /\ searches[id].collab = "scholar"
       /\ searches[id].st = "requesting"
       /\ \E ok \in BOOLEAN, papers \in SearchAnswers("scholar") :
            IF ok THEN SearchStores(id, [docs |-> papers, total |-> Len(papers)], 0)
            ELSE /\ searches' = [searches EXCEPT
                                   ![id] = Returned2("scholar", searches[id].query,
                                                     SearchCatch("scholar"), 1)]
                 /\ UNCHANGED cache
  /\ UNCHANGED <<env, config, faults, pc, gwVars, simVars, plVars,
                 rq, body, baseCondition, cause, fetches, now, response,
                 lastRequestTime, log>>

\* webCrawler.ts lines 58-85: a site search is answered, and the search pauses
\* before the next request, or fails, and the next request goes out at once
WebSourceAnswers ==
  /\ rq = "searching"
  /\ \E id \in DOMAIN searches :
       /\ searches[id].collab = "web"
       /\ searches[id].st = "requesting"
       /\ searches[id].stage \in {1, 2}
       /\ \E ok \in BOOLEAN, pages \in SearchAnswers("web") \ {<<>>} :
            IF ok
              THEN /\ searches' =
                        [searches EXCEPT
                           ![id] = Sleeping("web", searches[id].query, "pausing",
                                            searches[id].stage,
                                            searches[id].held \o pages,
                                            searches[id].failed,
                                            now + SourceDelay)]
                   /\ UNCHANGED log
              ELSE /\ searches' =
                        [searches EXCEPT
                           ![id] = Requesting("web", searches[id].query,
                                              searches[id].stage + 1, searches[id].held,
                                              searches[id].failed + 1)]
                   /\ RequestGoesOut("web")
  /\ UNCHANGED <<env, config, faults, pc, gwVars, simVars, plVars,
                 rq, body, baseCondition, cause, fetches, cache, now, response,
                 lastRequestTime>>

\* webCrawler.ts line 80: the delay between two sources is over
WebPauseEnds ==
  /\ rq = "searching"
  /\ \E id \in DOMAIN searches :
       /\ searches[id].st = "pausing"
       /\ now >= searches[id].wake
       /\ searches' = [searches EXCEPT
                         ![id] = Requesting("web", searches[id].query,
                                            searches[id].stage + 1, searches[id].held,
                                            searches[id].failed)]
       /\ RequestGoesOut("web")
  /\ UNCHANGED <<env, config, faults, pc, gwVars, simVars, plVars,
                 rq, body, baseCondition, cause, fetches, cache, now, response,
                 lastRequestTime>>

\* webCrawler.ts lines 88-121: the instant answer request is answered or
\* fails; the result is stored either way
WebAnswerAnswers ==
  /\ rq = "searching"
  /\ \E id \in DOMAIN searches :
       /\ searches[id].collab = "web"
       /\ searches[id].st = "requesting"
       /\ searches[id].stage = 3
       /\ \E ok \in BOOLEAN, pages \in SearchAnswers("web") :
          \E allContents \in {IF ok THEN searches[id].held \o pages
                              ELSE searches[id].held} :
            SearchStores(id, [docs |-> Slice(allContents, 8),
                              total |-> Len(allContents)],
                         IF ok THEN searches[id].failed ELSE searches[id].failed + 1)
  /\ UNCHANGED <<env, config, faults, pc, gwVars, simVars, plVars,
                 rq, body, baseCondition, cause, fetches, now, response,
                 lastRequestTime, log>>

\* time passes
TimePasses ==
  /\ rq = "searching"
  /\ \E t \in SearchInstants : t > now /\ now' = t
  /\ UNCHANGED <<env, config, faults, pc, gwVars, simVars, plVars, srVars,
                 rq, body, baseCondition, cause, fetches, cache, response>>

InitSearch ==
  /\ env = [AI_MODEL |-> "", GROQ_MODEL |-> "", keys |-> EnvKeys({})]
  /\ config = NoConfig
  /\ faults = {}
  /\ pc = "route"
  /\ GatewayIdle
  /\ SimilarityIdle
  /\ PipelineIdle
  /\ rq = "searching"
  /\ body = [kind |-> "none"]
  /\ baseCondition = <<>>
  /\ cause = <<>>
  /\ fetches = <<>>
  /\ cache = <<>>
  /\ now = FirstInstant
  /\ response = NoResponse
  /\ SearchIdle

NextSearch ==
  \/ SearchBegins
  \/ SearchWakes
  \/ ScholarAnswers
  \/ WebSourceAnswers
  \/ WebPauseEnds
  \/ WebAnswerAnswers
  \/ TimePasses

SpecSearch == InitSearch /\ [][NextSearch]_vars
-----------------------------------------------------------------------------
(* Properties of the gateway, checked under SpecGateway *)

\* the backend families whose candidates form one list
DirectFamilies == {"groq-llama", "together-ai", "openrouter"}

\* the k-th answered request failed with what the running function calls a rate limit
FailedRateLimited(k) == ~calls[k].ok /\ IsRateLimit(fn, calls[k].error)

AttemptedModels == [k \in 1..Len(calls) |-> calls[k].model]

NoDuplicates(list) ==
  \A a, b \in 1..Len(list) : a # b => list[a] # list[b]

(* C2: when the first M candidates fail with a rate-limit error and        *)
(* candidate M+1 succeeds, exactly M+1 requests were issued, in the order  *)
(* of the candidate list, no later candidate is ever called, and the       *)
(* gateway returns the content of candidate M+1.                           *)
C2_FallbackOrder ==
  selected \in DirectFamilies =>
    \A M \in 0..(Len(modelsToTry) - 1) :
      ( /\ Len(calls) > M
        /\ \A k \in 1..M : FailedRateLimited(k)
        /\ calls[M + 1].ok )
      => /\ Len(calls) = M + 1
         /\ inFlight = {}
         /\ \A k \in 1..(M + 1) : calls[k].model = modelsToTry[k]
         /\ gwStatus = "returned"
         /\ gwResult = Returned(OrEmpty(calls[M + 1].content))

C2_Witness ==
  /\ selected = "groq-llama"
  /\ pc = "direct_done"
  /\ Len(calls) = 3
  /\ FailedRateLimited(1) /\ FailedRateLimited(2)
  /\ calls[3].ok /\ calls[3].content.kind = "text"
  /\ gwResult = Returned(calls[3].content)

(* C3: when every candidate of a family fails with a rate-limit error the  *)
(* gateway call fails with the all-rate-limited error, whose message names *)
(* every candidate once, in the order of the attempts.                     *)
C3_Exhaustion ==
  ( /\ selected \in DirectFamilies
    /\ Len(modelsToTry) > 0
    /\ Len(calls) = Len(modelsToTry)
    /\ \A k \in 1..Len(calls) : FailedRateLimited(k) )
  => /\ gwStatus = "threw"
     /\ gwResult = Threw(AllRateLimitedError(fn, AttemptedModels))
     /\ AttemptedModels = modelsToTry
     /\ NoDuplicates(gwResult.error.names)

C3_Witness ==
  /\ selected = "groq-llama"
  /\ Len(modelsToTry) = 5
  /\ Len(calls) = 5
  /\ \A k \in 1..5 : FailedRateLimited(k)
  /\ gwResult.kind = "error" /\ gwResult.error.kind = "allRateLimited"
  /\ Len(gwResult.error.names) = 5

\* generateAIResponse found a credential
HasCredential == ResolveApiKey(config) # ""

-----------------------------------------------------------------------------
(* Properties of the paraphrase check, checked under SpecSimilarity *)

\* s without the white space at its two ends, found by position
OuterStripped(s) ==
  LET inkIdx == {k \in 1..Len(s) : ~IsSpace(s[k])}
  IN  IF inkIdx = {} THEN <<>>
      ELSE SubSeq(s, CHOOSE k \in inkIdx : \A m \in inkIdx : k <= m,
                     CHOOSE k \in inkIdx : \A m \in inkIdx : k >= m)

\* s with every run of white space replaced by one blank
RECURSIVE CollapseSpaces(_)
CollapseSpaces(s) ==
  IF s = <<>> THEN <<>>
  ELSE IF IsSpace(Head(s))
    THEN IF Len(s) > 1 /\ IsSpace(s[2]) THEN CollapseSpaces(Tail(s))
         ELSE <<" ">> \o CollapseSpaces(Tail(s))
  ELSE <<Head(s)>> \o CollapseSpaces(Tail(s))

\* the two strings differ in letter case and in white space only
DifferInCaseOrSpaceOnly(a, b) ==
  OuterStripped(CollapseSpaces(ToLowerCase(a))) = OuterStripped(CollapseSpaces(ToLowerCase(b)))

\* the two strings differ in letter case and in leading or trailing white space only
DifferInCaseOrOuterSpaceOnly(a, b) ==
  OuterStripped(ToLowerCase(a)) = OuterStripped(ToLowerCase(b))

LongerLen(a, b) == IF Len(a) > Len(b) THEN Len(a) ELSE Len(b)

-----------------------------------------------------------------------------
(* Properties of analyzeHealthPapers *)

Finished == pc = "done" /\ result.kind = "returned"

\* the drafts the extraction response carried
DraftsReceived ==
  IF responseText.kind = "json" /\ responseText.value.t = "object"
       /\ Has(responseText.value.fields, "recommendations")
       /\ responseText.value.fields.recommendations.t = "array"
    THEN responseText.value.fields.recommendations.items
    ELSE <<>>

ValuesOf(rec, field) ==
  IF field = "specificExercises" THEN Range(rec[field]) ELSE {rec[field]}

\* some evidence entry of rec has the chunk, and the chunk contains every value
GroundedIn(rec, field, chunkField) ==
  \E k \in DOMAIN rec.evidence :
    /\ Has(rec.evidence[k], chunkField)
    /\ \A v \in ValuesOf(rec, field) :
         Includes(ToLowerCase(rec.evidence[k][chunkField]), ToLowerCase(v))

\* C1: in every returned result, every populated exercise field of every
\* recommendation is contained, ignoring case, in an exerciseDetailsChunk of
\* the same recommendation's evidence, and every populated intake field in a
\* dosageDetailsChunk.
C1_ChunkGrounding ==
  Finished =>
    \A k \in DOMAIN result.value.recommendations :
      LET rec == result.value.recommendations[k]
      IN  /\ \A f \in ExerciseFields \cap DOMAIN rec :
               GroundedIn(rec, f, "exerciseDetailsChunk")
          /\ \A f \in IntakeFields \cap DOMAIN rec :
               GroundedIn(rec, f, "dosageDetailsChunk")

ExtractionFailed == aiCalls = <<"extraction">> /\ responseText = NoText

\* C5: analyzeHealthPapers always returns an object with the given condition,
\* a list of recommendations and a list of mechanisms, and the empty result
\* when the extraction call failed on every candidate.
C5_WellFormedResult ==
  pc = "done" =>
    /\ result.kind = "returned"
    /\ result.value.condition = condition
    /\ DOMAIN result.value.recommendations = 1..Len(result.value.recommendations)
    /\ result.value.mechanisms.t = "array"
    /\ (ExtractionFailed => result.value = EmptyResult(condition))

\* C6: when the extraction response is not JSON, inside a code fence or bare,
\* the only model call made is the extraction call and the result is the
\* empty one.
C6_ParseErrorNotRetried ==
  (pc = "done" /\ responseText # NoText /\ responseText.kind # "json") =>
    /\ aiCalls = <<"extraction">>
    /\ inFlight = {}
    /\ result = Resolved(EmptyResult(condition))

C6_Witness ==
  /\ pc = "done"
  /\ responseText = GarbageText
  /\ includeBudget
  /\ aiCalls = <<"extraction">>
  /\ result = Resolved(EmptyResult(condition))

SimplificationFields == {"summarySimplified", "mechanismSimplified", "technicalTerms"}

\* C7: once the simplifier has been called, the result holds the validated
\* recommendations, apart from their simplification fields, and the
\* mechanisms of the analysis, whatever the simplifier's model call did.
C7_SimplificationNeverBlocks ==
  (Finished /\ \E k \in DOMAIN aiCalls : aiCalls[k] = "simplification") =>
    /\ Len(result.value.recommendations) = Len(recommendations)
    /\ \A k \in DOMAIN recommendations :
         Delete(result.value.recommendations[k], SimplificationFields)
           = Delete(recommendations[k], SimplificationFields)
    /\ result.value.mechanisms = analysisMechanisms

\* the text without its white space, in lower case
Squeezed(s) == ToLowerCase(SelectSeq(s, LAMBDA c : ~IsSpace(c)))

\* (maxLen - editDistance) / maxLen < 0.9
SimilarityBelow90(a, b) ==
  LET maxLen == IF Len(a) > Len(b) THEN Len(a) ELSE Len(b)
  IN  10 * (maxLen - levenshteinDistance(a, b)) < 9 * maxLen

ActualParaphrase(original, simplified) ==
  /\ Squeezed(original) # Squeezed(simplified)
  /\ SimilarityBelow90(original, simplified)

\* C8: summarySimplified and mechanismSimplified are in the result only when
\* they differ from the summary and the mechanism by more than case and
\* white space and their similarity to them is below 0.9.
C8_OnlyActualParaphrases ==
  Finished =>
    \A k \in DOMAIN result.value.recommendations :
      LET rec == result.value.recommendations[k]
      IN  /\ Has(rec, "summarySimplified") =>
               ActualParaphrase(rec.summary, rec.summarySimplified)
          /\ Has(rec, "mechanismSimplified") =>
               ActualParaphrase(rec.mechanism, rec.mechanismSimplified)

\* no evidence item of the draft carries the chunk
WithoutChunk(draft, chunkField) ==
  ~Has(draft, "evidence")
    \/ \A k \in DOMAIN draft.evidence : ~Truthy(draft.evidence[k], chunkField)

\* rec has none of the fields and its evidence none of the sub-fields
Ungated(rec, fields, evidenceFields) ==
  /\ DOMAIN rec \cap fields = {}
  /\ \A k \in DOMAIN rec.evidence : DOMAIN rec.evidence[k] \cap evidenceFields = {}

\* the recommendations that come from the draft; names are unique in a response
MadeFrom(recs, draft) == {k \in DOMAIN recs : recs[k].name = draft.name}

GatedList(recs) ==
  \A d \in DOMAIN DraftsReceived :
    \A k \in MadeFrom(recs, DraftsReceived[d]) :
      /\ WithoutChunk(DraftsReceived[d], "exerciseDetailsChunk") =>
           Ungated(recs[k], ExerciseFields, ExerciseEvidenceFields)
      /\ WithoutChunk(DraftsReceived[d], "dosageDetailsChunk") =>
           Ungated(recs[k], IntakeFields, IntakeEvidenceFields)

\* C10: a draft none of whose evidence items carries an exerciseDetailsChunk
\* (a draft without an evidence list included) yields a recommendation with
\* none of specificExercises, reps, sets, duration, frequency and without
\* sectionForExercises and exerciseDetailsChunk in its evidence; the same for
\* dosageDetailsChunk and dosage, servingSize, frequencyOfIntake,
\* sectionForDosage, dosageDetailsChunk.  It holds of the validated list and of
\* the returned one.
C10_ChunkGating ==
  /\ GatedList(recommendations)
  /\ Finished => GatedList(result.value.recommendations)

C10_Witness ==
  /\ Finished
  /\ DraftsReceived = <<DraftBare, DraftLoose>>
  /\ Len(result.value.recommendations) = 2
  /\ DOMAIN result.value.recommendations[1] =
       {"type", "name", "category", "summary", "evidence"}
  /\ result.value.recommendations[1].evidence =
       << [paperId |-> <<"p","1">>, paperTitle |-> <<"T","1">>, paperUrl |-> <<"u","1">>, doi |-> <<"d","1">>] >>
  /\ DOMAIN result.value.recommendations[2] =
       {"type", "name", "category", "summary", "evidence"}
  /\ result.value.recommendations[2].evidence = <<>>

-----------------------------------------------------------------------------
(* Properties of the validation chain *)

\* the validation chain has run on the received draft
Validated == pc # "extract_wait" /\ Len(DraftsReceived) = 1

TheDraft == DraftsReceived[1]

\* the draft was kept, TheRecommendation is what became of it
Survived == Validated /\ Len(recommendations) = 1
Dropped == Validated /\ Len(recommendations) = 0

TheRecommendation == recommendations[1]

\* the value is one of the placeholder phrases, in any letter case
IsPlaceholderText(value) ==
  ToLowerCase(Trim(value)) \in
    { <<"n","o","t"," ","s","p","e","c","i","f","i","e","d">>, <<"n","o","t"," ","r","e","p","o","r","t","e","d">>, <<"n","o","t"," ","m","e","n","t","i","o","n","e","d">>, <<"n","o","t"," ","a","v","a","i","l","a","b","l","e">>,
      <<"n","/","a">>, <<"u","n","k","n","o","w","n">>, <<"u","n","s","p","e","c","i","f","i","e","d">> }

\* the value states an amount
IsQuantity(value) ==
  /\ ~IsPlaceholderText(value)
  /\ \E k \in DOMAIN value : value[k] \in {"0", "1", "2", "3", "4", "5", "6", "7", "8", "9"}

ChunkOf(field) ==
  IF field \in IntakeFields THEN "dosageDetailsChunk" ELSE "exerciseDetailsChunk"

\* C11: a structured field (dosage, servingSize, frequencyOfIntake, reps, sets,
\* duration, frequency) whose value is a placeholder, in any letter case, is
\* absent from the validated recommendation even when a supporting chunk is
\* present, and a field whose value is a real quantity is not removed by the
\* scrubbing: with its supporting chunk present it is in the validated
\* recommendation with the value of the draft.
C11_PlaceholderScrubbing ==
  Survived =>
    \A f \in PlaceholderFields \cap DOMAIN TheDraft :
      /\ IsPlaceholderText(TheDraft[f]) => ~Has(TheRecommendation, f)
      /\ IsQuantity(TheDraft[f]) /\ HasChunks(TheDraft, ChunkOf(f)) =>
           Has(TheRecommendation, f) /\ TheRecommendation[f] = TheDraft[f]

\* the part of C11 the code keeps: placeholders are absent, chunk or no chunk
C11_PlaceholdersAbsent ==
  Survived =>
    \A f \in PlaceholderFields \cap DOMAIN TheDraft :
      IsPlaceholderText(TheDraft[f]) => ~Has(TheRecommendation, f)

\* a placeholder next to a supporting chunk was scrubbed
C11_Scrubbed ==
  /\ Survived
  /\ Has(TheDraft, "dosage")
  /\ TheDraft.dosage = <<"N","/","A">>
  /\ HasChunks(TheDraft, "dosageDetailsChunk")
  /\ ~Has(TheRecommendation, "dosage")

\* the serving size "1 banana" is in its chunk and was deleted all the same
C11_QuantityLost ==
  /\ Survived
  /\ Has(TheDraft, "servingSize")
  /\ TheDraft.servingSize = <<"1"," ","b","a","n","a","n","a">>
  /\ HasChunks(TheDraft, "dosageDetailsChunk")
  /\ ~Has(TheRecommendation, "servingSize")

\* the words of a text: its maximal runs of characters that are not whitespace
RECURSIVE Words(_)
Words(s) ==
  LET t == TrimStart(s)
  IN  IF Len(t) = 0 THEN <<>>
      ELSE LET stops == {k \in 1..Len(t) : IsSpace(t[k])}
               end   == IF stops = {} THEN Len(t) + 1
                        ELSE CHOOSE k \in stops : \A m \in stops : k <= m
           IN  <<SubSeq(t, 1, end - 1)>> \o Words(SubSeq(t, end, Len(t)))

\* the name is empty, a bare noun, a generic qualifier with a generic noun,
\* something followed by "(general)", or a dietary / nutritional intervention
GenericName(rawName) ==
  LET w == Words(ToLowerCase(rawName))
  IN  \/ Len(w) = 0
      \/ /\ Len(w) = 1
         /\ w[1] \in { <<"e","x","e","r","c","i","s","e">>, <<"a","c","t","i","v","i","t","y">>, <<"d","i","e","t">>, <<"n","u","t","r","i","t","i","o","n">>, <<"f","o","o","d">>,
                       <<"t","h","e","r","a","p","y">>, <<"e","x","e","r","c","i","s","e","(","g","e","n","e","r","a","l",")">> }
      \/ /\ Len(w) = 2
         /\ w[1] \in { <<"s","u","b","m","a","x","i","m","a","l">>, <<"t","h","e","r","a","p","e","u","t","i","c">>, <<"g","e","n","e","r","a","l">>, <<"m","o","d","e","r","a","t","e">>, <<"i","n","t","e","n","s","i","v","e">> }
         /\ w[2] \in { <<"e","x","e","r","c","i","s","e">>, <<"a","c","t","i","v","i","t","y">>, <<"d","i","e","t">>, <<"n","u","t","r","i","t","i","o","n">> }
      \/ /\ Len(w) = 2
         /\ w[1] \in { <<"d","i","e","t","a","r","y">>, <<"n","u","t","r","i","t","i","o","n","a","l">> }
         /\ w[2] \in { <<"i","n","t","e","r","v","e","n","t","i","o","n">>, <<"i","n","t","e","r","v","e","n","t","i","o","n","s">> }
      \/ /\ Len(w) >= 2
         /\ w[Len(w)] = <<"(","g","e","n","e","r","a","l",")">>

\* the mechanism of the draft passes the vagueness and the domain filter for
\* every condition: it has no vague phrase and no domain keyword
NeutralMechanism ==
  \/ ~Has(TheDraft, "mechanism")
  \/ ~IncludesAny(ToLowerCase(TheDraft.mechanism),
                  VagueMechanisms \cup MetabolicTerms \cup NeurologicalTerms)

\* C12: a draft whose name, lowercased and trimmed, is empty, a bare noun
\* (exercise, activity, diet, nutrition, food, therapy) or a generic-qualifier
\* pattern is dropped; "Exercise" and "Submaximal Exercise" are rejected, and
\* "Running" and "Bench Press" are retained when the mechanism passes the
\* other filters.
C12_NameSpecificity ==
  Validated =>
    /\ GenericName(TheDraft.name) => Dropped
    /\ TheDraft.name \in {<<"E","x","e","r","c","i","s","e">>, <<"S","u","b","m","a","x","i","m","a","l"," ","E","x","e","r","c","i","s","e">>} => Dropped
    /\ TheDraft.name \in {<<"R","u","n","n","i","n","g">>, <<"B","e","n","c","h"," ","P","r","e","s","s">>} /\ NeutralMechanism => Survived

\* a qualified generic name with a sound mechanism was dropped
C12_Witness ==
  /\ Dropped
  /\ TheDraft.name = <<"S","u","b","m","a","x","i","m","a","l"," ","E","x","e","r","c","i","s","e">>
  /\ NeutralMechanism
  /\ condition = <<"f","l","u">>

\* the other side of C12: a specific name with a sound mechanism was kept
C12_Retained ==
  /\ Survived
  /\ TheDraft.name = <<"B","e","n","c","h"," ","P","r","e","s","s">>
  /\ NeutralMechanism
  /\ TheRecommendation.name = <<"B","e","n","c","h"," ","P","r","e","s","s">>

\* no recommendation of the list has one of the names, in any letter case
NoneNamed(recs, names) ==
  \A k \in DOMAIN recs :
    Has(recs[k], "name") => ToLowerCase(Trim(recs[k].name)) \notin names

\* C13: no recommendation that leaves the validation stage, and none in the
\* returned result, is named "Exercise", "Dietary Intervention" or
\* "Physical activity", in any letter case.
C13_ListedGenericTermsRejected ==
  LET listed == { <<"e","x","e","r","c","i","s","e">>, <<"d","i","e","t","a","r","y"," ","i","n","t","e","r","v","e","n","t","i","o","n">>, <<"p","h","y","s","i","c","a","l"," ","a","c","t","i","v","i","t","y">> }
  IN  /\ NoneNamed(recommendations, listed)
      /\ Finished => NoneNamed(result.value.recommendations, listed)

\* the part of C13 the code keeps
C13_ExerciseAndDietaryInterventionRejected ==
  LET listed == { <<"e","x","e","r","c","i","s","e">>, <<"d","i","e","t","a","r","y"," ","i","n","t","e","r","v","e","n","t","i","o","n">> }
  IN  /\ NoneNamed(recommendations, listed)
      /\ Finished => NoneNamed(result.value.recommendations, listed)

\* "Physical activity" passed the validation stage
C13_PhysicalActivityKept ==
  /\ Survived
  /\ TheDraft.name = <<"P","h","y","s","i","c","a","l"," ","a","c","t","i","v","i","t","y">>
  /\ TheRecommendation.name = <<"P","h","y","s","i","c","a","l"," ","a","c","t","i","v","i","t","y">>

\* the mechanism of the draft in lower case, empty when the draft has none
TheMechanism ==
  IF Has(TheDraft, "mechanism") THEN ToLowerCase(TheDraft.mechanism) ELSE <<>>

\* the draft passes the name filter and the vagueness filter
PassesNameAndVagueness ==
  /\ Validated
  /\ ~GenericName(TheDraft.name)
  /\ ~IncludesAny(TheMechanism, VagueMechanisms)

\* C14: of the drafts that pass the name and vagueness filters, under a
\* condition with neurological keywords only exactly those are rejected whose
\* mechanism has a metabolic keyword, no neurological keyword and not the
\* lowercased condition; symmetrically under a condition with metabolic
\* keywords only; under a condition of neither or of both domains none is
\* rejected.  "increases insulin sensitivity" is rejected for "concussion" and
\* retained for "diabetes".
C14_DomainRelevance ==
  PassesNameAndVagueness =>
    LET cond      == ToLowerCase(condition)
        neuroCond == IncludesAny(cond, NeurologicalConditionTerms)
        metaCond  == IncludesAny(cond, MetabolicConditionTerms)
        metabolic == IncludesAny(TheMechanism, MetabolicTerms)
        neuro     == IncludesAny(TheMechanism, NeurologicalTerms)
        mentions  == Includes(TheMechanism, cond)
    IN  /\ neuroCond /\ ~metaCond => (Dropped <=> metabolic /\ ~neuro /\ ~mentions)
        /\ metaCond /\ ~neuroCond => (Dropped <=> neuro /\ ~metabolic /\ ~mentions)
        /\ (neuroCond <=> metaCond) => Survived
        /\ TheMechanism = <<"i","n","c","r","e","a","s","e","s"," ","i","n","s","u","l","i","n"," ","s","e","n","s","i","t","i","v","i","t","y">> =>
             /\ condition = <<"c","o","n","c","u","s","s","i","o","n">> => Dropped
             /\ condition = <<"d","i","a","b","e","t","e","s">> => Survived

\* a metabolic mechanism under a neurological condition was rejected
C14_Witness ==
  /\ PassesNameAndVagueness
  /\ Dropped
  /\ condition = <<"c","o","n","c","u","s","s","i","o","n">>
  /\ TheMechanism = <<"i","n","c","r","e","a","s","e","s"," ","i","n","s","u","l","i","n"," ","s","e","n","s","i","t","i","v","i","t","y">>
  /\ TheDraft.name = <<"R","u","n","n","i","n","g">>

\* further cases of C14: the same draft kept for "diabetes", a metabolic
\* mechanism that mentions the condition kept, a neurological mechanism
\* rejected under a metabolic condition, a condition of both domains
C14_RetainedForDiabetes ==
  Survived /\ condition = <<"d","i","a","b","e","t","e","s">> /\ TheMechanism = <<"i","n","c","r","e","a","s","e","s"," ","i","n","s","u","l","i","n"," ","s","e","n","s","i","t","i","v","i","t","y">>
C14_MentionKept ==
  Survived /\ condition = <<"T","B","I">> /\ TheMechanism = <<"l","e","s","s"," ","i","n","s","u","l","i","n"," ","i","n"," ","t","b","i">>
C14_NeuroRejected ==
  /\ PassesNameAndVagueness /\ Dropped
  /\ condition = <<"d","i","a","b","e","t","e","s">> /\ TheMechanism = <<"r","e","d","u","c","e","s"," ","n","e","u","r","o","i","n","f","l","a","m","m","a","t","i","o","n">>
C14_BothDomains ==
  /\ Survived /\ condition = <<"b","r","a","i","n"," ","g","l","u","c","o","s","e">>
  /\ TheMechanism = <<"i","n","c","r","e","a","s","e","s"," ","i","n","s","u","l","i","n"," ","s","e","n","s","i","t","i","v","i","t","y">>

\* obj.key, <<>> standing for undefined
Field(obj, key) == IF Has(obj, key) THEN <<obj[key]>> ELSE <<>>

\* the places of the source documents that match the evidence entry by id or
\* by exact title
MatchingDocuments(ev) ==
  LET docs == CombinePapers(sources)
  IN  { k \in DOMAIN docs :
          \/ Field(ev, "paperId") = <<docs[k].id>>
          \/ Field(ev, "paperTitle") = <<docs[k].title>> }

C15_BothReplaced ==
  /\ Survived
  /\ TheDraft.evidence = << [paperId |-> <<"p","1">>, paperUrl |-> <<"x">>, doi |-> <<"d","x">>] >>
  /\ TheRecommendation.evidence =
       << [paperId |-> <<"p","1">>, paperUrl |-> <<"u","1">>, doi |-> <<"d","1">>] >>
C15_Unmatched ==
  /\ Survived
  /\ TheDraft.evidence = << [paperId |-> <<"p","9">>, paperTitle |-> <<"T","9">>, doi |-> <<"d","x">>] >>
  /\ TheRecommendation.evidence = TheDraft.evidence

-----------------------------------------------------------------------------
(* Properties of the budget stage *)

\* the budget call threw, or returned text that is no JSON
BudgetCallOrParseFailed ==
  /\ pc = "budget_wait"
  /\ \/ gwStatus = "threw"
     \/ gwStatus = "returned" /\ ~JsonParse(StripFences(gwResult.content)).ok

\* what the run returns when includeBudget is false: lines 516-520 and 527
ResultWithoutBudget ==
  [ condition |-> condition,
    recommendations |-> MapSimplified(recommendations, simplifiedTexts).value,
    mechanisms |-> analysisMechanisms ]

\* C16: when the budget model call or its parse fails, the run returns
\* budgetOptions = [] and the condition, recommendations and mechanisms that
\* the same run returns with includeBudget false.
C16_BudgetIsolation ==
  [][ BudgetCallOrParseFailed =>
        /\ pc' = "done"
        /\ result'.kind = "returned"
        /\ result'.value.budgetOptions = JsonArray(<<>>)
        /\ Delete(result'.value, {"budgetOptions"}) = ResultWithoutBudget ]_vars

\* without the budget stage the run returns ResultWithoutBudget
C16_SameWithoutBudget ==
  Finished /\ ~includeBudget =>
    IF MapSimplified(recommendations, simplifiedTexts).ok
      THEN result.value = ResultWithoutBudget
      ELSE result.value = EmptyResult(condition)

\* a run with includeBudget whose budget stage is over: the options are empty
\* and the recommendation of the extraction is in the result
C16_Witness ==
  /\ Finished
  /\ includeBudget
  /\ aiCalls = <<"extraction", "simplification", "budget">>
  /\ result.value.budgetOptions = JsonArray(<<>>)
  /\ Len(result.value.recommendations) = 1
  /\ Delete(result.value, {"budgetOptions"}) = ResultWithoutBudget

\* the budget call has failed and its catch block is about to run
C16_BudgetCallThrew ==
  /\ BudgetCallOrParseFailed
  /\ gwStatus = "threw"
  /\ Len(result.value.recommendations) = 1

-----------------------------------------------------------------------------
(* Further properties of the gateway, checked under SpecGateway *)

\* the family generateAIResponse selects and the variable of its credential
SelectedFamily ==
  IF config.model # "" THEN config.model
  ELSE IF env.AI_MODEL # "" THEN env.AI_MODEL
  ELSE "groq-llama"

CredentialVariable ==
  CASE SelectedFamily = "groq-llama" -> "GROQ_API_KEY"
    [] SelectedFamily \in {"openai-gpt-oss", "together-ai"} -> "TOGETHER_API_KEY"
    [] SelectedFamily = "openrouter" -> "OPENROUTER_API_KEY"
    [] OTHER -> "AI_API_KEY"

NoCredential == config.apiKey = "" /\ env.keys[CredentialVariable] = ""

\* generateAIResponse has been called
Called == pc \in {"direct_wait", "direct_done"}

\* C18: when no key is passed in config and the environment variable of the
\* selected family is unset, generateAIResponse has thrown the missing-API-key
\* error naming the family and the variable as soon as it is called, and no
\* request has been issued for any candidate model.
C18_MissingCredential ==
  Called /\ NoCredential =>
    /\ gwStatus = "threw"
    /\ gwResult = Threw([kind |-> "missingKey", model |-> SelectedFamily,
                         variable |-> CredentialVariable])
    /\ selected = SelectedFamily
    /\ calls = <<>>
    /\ inFlight = {}
    /\ modelsToTry = <<>>

\* the openrouter family, chosen by AI_MODEL, has no key: the call is over
\* with the error and without a request
C18_Witness ==
  /\ pc = "direct_done"
  /\ config = [model |-> "", apiKey |-> ""]
  /\ env.AI_MODEL = "openrouter"
  /\ env.keys["OPENROUTER_API_KEY"] = ""
  /\ gwResult = Threw(MissingKeyError("openrouter"))
  /\ calls = <<>>

\* this step is the catch block of the running function handling a failure
FailedStep ==
  /\ gwStatus = "running"
  /\ Len(calls') = Len(calls) + 1
  /\ ~calls'[Len(calls')].ok

TheFailure == calls'[Len(calls')].error

OnLastCandidate == i = Len(modelsToTry)

\* the loop goes on with the next candidate of the same list
Advances ==
  /\ gwStatus' = "running"
  /\ fn' = fn
  /\ modelsToTry' = modelsToTry
  /\ i' = i + 1
  /\ inFlight' = {}

Surfaces(err) == gwStatus' = "threw" /\ gwResult' = Threw(err)

\* generateWithOpenAIGPTOSS falls back to the OpenRouter list
HandsOver ==
  /\ gwStatus' = "running"
  /\ fn' = "openrouter"
  /\ i' = 1
  /\ modelsToTry'[1] = "openai/gpt-oss-120b"

C19_TogetherFailsFast ==
  /\ selected = "together-ai"
  /\ Len(modelsToTry) = 3
  /\ Len(calls) = 1
  /\ ~calls[1].ok
  /\ calls[1].error = ErrModelGone
  /\ gwResult = Threw(OriginalError(ErrModelGone))

\* groq-llama: the unclassified failure of the last candidate has surfaced
C19_LastUnclassified ==
  /\ selected = "groq-llama"
  /\ Len(calls) = Len(modelsToTry)
  /\ Len(calls) > 0
  /\ ~calls[Len(calls)].ok
  /\ calls[Len(calls)].error = ErrOther
  /\ gwResult = Threw(OriginalError(ErrOther))

-----------------------------------------------------------------------------
(* Claims about the route: the source searches and the condition *)

\* the analysis has been called (route.ts line 50)
AnalysisCalled == rq = "analysis" \/ (rq = "responded" /\ pc # "route")

\* no search has raised out of its function
NoneRejected == \A search \in DOMAIN fetches : fetches[search].st \in {"pending", "done"}

\* what the searches handed to the analysis, by source of the pipeline
Fetched ==
  [ pubmed   |-> fetches.pubmed.result.docs,
    semantic |-> <<>>,
    scholar  |-> fetches.scholar.result.docs,
    web      |-> fetches.web.result.docs ]

\* C17: the three searches are started together, the analysis is called only
\* when all three have returned, a search that failed has returned the empty
\* result instead of raising, and the analysis receives the documents of
\* every search
C17_FanOutAndJoin ==
  /\ NoneRejected
  /\ rq = "fetching" => /\ DOMAIN fetches = Searches
                        /\ pc = "route"
                        /\ aiCalls = <<>>
  /\ \A search \in DOMAIN fetches :
       (fetches[search].st = "done" /\ fetches[search].logged)
         => fetches[search].result = EmptySearchResult
  /\ AnalysisCalled => /\ \A search \in Searches : fetches[search].st = "done"
                       /\ sources = Fetched
  /\ (response.kind = "json" /\ Accepted(body)) => response.status = 200

\* the PubMed search failed and the analysis received the Google Scholar and
\* web documents
C17_Witness ==
  /\ AnalysisCalled
  /\ fetches.pubmed.logged
  /\ sources.pubmed = <<>>
  /\ sources.scholar # <<>>
  /\ sources.web # <<>>

\* two searches are still out while the third one has failed
C17_FailedWhileOthersPending ==
  /\ rq = "fetching"
  /\ fetches.scholar.st = "done" /\ fetches.scholar.logged
  /\ fetches.pubmed.st = "pending"
  /\ fetches.web.st = "pending"

\* the raw condition of the request
RawCondition == body.fields.condition.chars

\* the text holds a connector phrase between white space
HasConnector(text) ==
  LET lower == ToLowerCase(text)
  IN  \E c \in {<<"a","f","t","e","r">>, <<"f","r","o","m">>, <<"d","u","e"," ","t","o">>, <<"c","a","u","s","e","d"," ","b","y">>, <<"f","o","l","l","o","w","i","n","g">>} :
        \E p \in 1..Len(text) :
          /\ p + Len(c) + 1 <= Len(text)
          /\ IsSpace(lower[p])
          /\ SubSeq(lower, p + 1, p + Len(c)) = c
          /\ IsSpace(lower[p + Len(c) + 1])

\* C20: for every non-empty condition the endpoint accepts, baseCondition is
\* not empty, and cause is null exactly when the condition holds no connector
\* phrase between white space
C20_ConditionSplitting ==
  rq = "fetching" =>
    /\ baseCondition # <<>>
    /\ cause = <<>> <=> ~HasConnector(RawCondition)

\* the part of C20 about the cause alone
C20_CauseNullIffNoConnector ==
  rq = "fetching" => (cause = <<>> <=> ~HasConnector(RawCondition))

\* a condition that starts with a connector leaves nothing before it
C20_EmptyBase ==
  /\ rq = "fetching"
  /\ RawCondition = <<" ","a","f","t","e","r"," ","a">>
  /\ baseCondition = <<>>
  /\ cause = <<<<"a">>>>
-----------------------------------------------------------------------------
(* Claims about the cache *)

\* the set calls so far whose service is that of the get just made and whose query
\* equals its query up to letter case and surrounding white space
SetsForLastGet ==
  { k \in 1..Len(log) :
      /\ log[k].op = "set"
      /\ log[k].service = response.service
      /\ DifferInCaseOrOuterSpaceOnly(log[k].query, response.query) }

\* the latest of them
LastSetForLastGet == log[CHOOSE k \in SetsForLastGet : \A m \in SetsForLastGet : m <= k]

\* C21: a get returns the data of the latest set of the same service and of a
\* query equal up to letter case and surrounding white space while at most the
\* TTL has elapsed since that set; once more has elapsed it returns null and
\* the entry is gone from the cache
C21_CacheTimeToLive ==
  (response.kind = "get" /\ SetsForLastGet # {}) =>
    IF now - LastSetForLastGet.at <= DefaultTTL
      THEN response.value = <<LastSetForLastGet.data>>
      ELSE /\ response.value = <<>>
           /\ CacheKey(response.service, response.query) \notin DOMAIN cache

\* a get exactly one TTL after the set, with the query in another letter case
\* and with spaces around it, returned the data
C21_Witness ==
  /\ response.kind = "get"
  /\ SetsForLastGet # {}
  /\ LastSetForLastGet.query = <<"f","l","u",":","8">>
  /\ response.query = <<" ","F","l","u",":","8"," ">>
  /\ now - LastSetForLastGet.at = DefaultTTL
  /\ response.value = <<LastSetForLastGet.data>>

\* a get one millisecond after the TTL returned null
C21_ExpiredGet ==
  /\ response.kind = "get"
  /\ SetsForLastGet # {}
  /\ now - LastSetForLastGet.at = DefaultTTL + 1
  /\ response.value = <<>>

\* a second set renewed the entry: the get is more than one TTL after the
\* first set and still returns the data
C21_Renewed ==
  /\ response.kind = "get"
  /\ Len(log) = 2
  /\ SetsForLastGet = {1, 2}
  /\ now - log[1].at > DefaultTTL
  /\ response.value = <<log[2].data>>
  /\ log[2].data # log[1].data
-----------------------------------------------------------------------------
(* More properties of analyzeHealthPapers and of the simplifier *)

\* simplifyMultipleTexts has returned
SimplifierReturned ==
  /\ \E k \in DOMAIN aiCalls : aiCalls[k] = "simplification"
  /\ pc \in {"budget_wait", "done"}

\* the batch handed to the simplifier
Batch == TextsToSimplify(recommendations)

\* C22: whatever the model call did (threw, answered with text that is no
\* JSON, with null, with an object, with an array that is too short), the
\* list simplifyMultipleTexts returns has one entry per input text, in input
\* order, and entry k has the text of input k as its original
C22_BatchContract ==
  SimplifierReturned =>
    /\ Len(simplifiedTexts) = Len(Batch)
    /\ \A k \in DOMAIN Batch : simplifiedTexts[k].original = Batch[k].text

\* the reply rewrote the first text and had no item for the last one, which
\* is returned as its own simplification
C22_Witness ==
  /\ SimplifierReturned
  /\ Len(Batch) >= 2
  /\ Len(simplifiedTexts) = Len(Batch)
  /\ simplifiedTexts[1].simplified # Batch[1].text
  /\ simplifiedTexts[Len(Batch)].simplified = Batch[Len(Batch)].text
  /\ simplifiedTexts[Len(Batch)].original = Batch[Len(Batch)].text

\* how many gateway calls of the stage analyzeHealthPapers has made
CallsOf(stage) == Cardinality({k \in DOMAIN aiCalls : aiCalls[k] = stage})

\* C26: the gateway calls of one run are extraction, then simplification,
\* then budget, each at most once; there is one simplification call exactly
\* when a recommendation survived validation, however many texts it has; and
\* the budget call is made only with includeBudget, after the simplifier
\* has returned
C26_StageOrder ==
  /\ aiCalls \in { <<>>, <<"extraction">>,
                   <<"extraction", "simplification">>,
                   <<"extraction", "budget">>,
                   <<"extraction", "simplification", "budget">> }
  /\ CallsOf("simplification") = IF Len(recommendations) > 0 THEN 1 ELSE 0
  /\ CallsOf("budget") > 0 =>
       /\ includeBudget
       /\ pc \in {"budget_wait", "done"}
       /\ Len(simplifiedTexts) = Len(Batch)

\* a run with budget whose recommendations gave several texts to simplify:
\* three gateway calls
C26_Witness ==
  /\ pc = "done"
  /\ includeBudget
  /\ Len(Batch) >= 3
  /\ aiCalls = <<"extraction", "simplification", "budget">>

\* no recommendation survived: the budget call follows the extraction call
C26_NoSimplification ==
  /\ pc = "done"
  /\ recommendations = <<>>
  /\ aiCalls = <<"extraction", "budget">>

\* the mapping back succeeded: the result holds the validated recommendations
MappedBack ==
  /\ SimplifierReturned
  /\ result.kind \in {"partial", "returned"}
  /\ Len(result.value.recommendations) = Len(recommendations)
  /\ Len(recommendations) > 0

\* the place of the summary of recommendation k in the batch: one text for
\* every recommendation before it and one more for each of their mechanisms
SummaryPlace(k) ==
  k + Cardinality({j \in 1..(k - 1) : Truthy(recommendations[j], "mechanism")})

\* the technical terms of an entry, none when it has no list of them
EntryTerms(entry) ==
  IF entry.technicalTerms.t = "array"
    THEN {entry.technicalTerms.items[n] : n \in DOMAIN entry.technicalTerms.items}
    ELSE {}

\* recommendation k of the result took its simplified texts and its terms
\* from its own entries
Aligned(k) ==
  LET rec      == recommendations[k]
      out      == result.value.recommendations[k]
      own      == simplifiedTexts[SummaryPlace(k)]
      withMech == Truthy(rec, "mechanism")
      ownMech  == simplifiedTexts[SummaryPlace(k) + 1]
  IN  /\ own.original = rec.summary
      /\ Has(out, "summarySimplified") => out.summarySimplified = own.simplified
      /\ withMech => ownMech.original = rec.mechanism
      /\ Has(out, "mechanismSimplified") =>
           withMech /\ out.mechanismSimplified = ownMech.simplified
      /\ Has(out, "technicalTerms") =>
           {out.technicalTerms[n] : n \in DOMAIN out.technicalTerms}
             \subseteq (EntryTerms(own) \cup (IF withMech THEN EntryTerms(ownMech) ELSE {}))

\* C27: for every list of validated recommendations, with and without
\* mechanisms, the entry used for the summary of a recommendation is the one
\* whose original is its summary, the entry used for its mechanism the one
\* whose original is its mechanism, and its simplified texts and technical
\* terms come from these entries only
C27_IndexAlignment ==
  MappedBack => \A k \in DOMAIN recommendations : Aligned(k)

\* a recommendation without a mechanism comes before one with a mechanism,
\* and both got their own reworded texts
C27_Witness ==
  /\ MappedBack
  /\ Len(recommendations) = 2
  /\ ~Truthy(recommendations[1], "mechanism")
  /\ Truthy(recommendations[2], "mechanism")
  /\ Has(result.value.recommendations[1], "summarySimplified")
  /\ Has(result.value.recommendations[2], "summarySimplified")
  /\ Has(result.value.recommendations[2], "mechanismSimplified")
  /\ result.value.recommendations[2].mechanismSimplified = simplifiedTexts[3].simplified
  /\ Has(result.value.recommendations[2], "technicalTerms")

\* none of the four source lists holds a document
NoDocuments == \A source \in DOMAIN sources : sources[source] = <<>>

\* C29: without any source document analyzeHealthPapers returns the empty
\* result, without budgetOptions, and makes no gateway call, also when
\* includeBudget is true
C29_EmptyDocuments ==
  (NoDocuments /\ pc # "start") =>
    /\ pc = "done"
    /\ result.kind = "returned"
    /\ DOMAIN result.value = {"condition", "recommendations", "mechanisms"}
    /\ result.value.condition = condition
    /\ result.value.recommendations = <<>>
    /\ result.value.mechanisms = JsonArray(<<>>)
    /\ aiCalls = <<>>
    /\ calls = <<>>
    /\ inFlight = {}
    /\ gwStatus = "idle"

\* a run with includeBudget and a credential, and without documents, is done
C29_Witness ==
  /\ NoDocuments
  /\ includeBudget
  /\ env.keys["GROQ_API_KEY"] # ""
  /\ pc = "done"
  /\ result.value.recommendations = <<>>
-----------------------------------------------------------------------------
(* More properties of the gateway *)

\* a generateWith* function has built its candidate list
InFamily == fn \in {"groq", "together", "openrouter"}

\* the primary model and the declared fallbacks of the running function
ConfiguredPrimary ==
  CASE fn = "groq" -> IF env.GROQ_MODEL = "" THEN "llama-3.3-70b-versatile"
                      ELSE env.GROQ_MODEL
    [] fn = "together" -> "meta-llama/Llama-3.1-70B-Instruct-Turbo"
    [] OTHER -> "openai/gpt-oss-120b"

DeclaredFallbacks ==
  CASE fn = "groq" -> GroqFallbackModels
    [] fn = "together" -> TogetherFallbackModels
    [] OTHER -> OpenRouterFallbackModels

\* the place of a model in a list that holds it once
PlaceIn(list, model) == CHOOSE k \in DOMAIN list : list[k] = model

\* C23: the candidate list starts with the primary model, holds no model
\* twice, and after the primary come exactly the declared fallbacks other than
\* the primary, in their declared order
C23_CandidateListShape ==
  InFamily =>
    /\ modelsToTry[1] = ConfiguredPrimary
    /\ NoDuplicates(modelsToTry)
    /\ {modelsToTry[k] : k \in 2..Len(modelsToTry)}
         = {DeclaredFallbacks[k] : k \in DOMAIN DeclaredFallbacks} \ {ConfiguredPrimary}
    /\ \A a, b \in 2..Len(modelsToTry) :
         a < b => PlaceIn(DeclaredFallbacks, modelsToTry[a])
                    < PlaceIn(DeclaredFallbacks, modelsToTry[b])

\* GROQ_MODEL names the second fallback: it moves to the front and the other
\* three keep their order
C23_Witness ==
  /\ fn = "groq"
  /\ env.GROQ_MODEL = "openai/gpt-oss-120b"
  /\ modelsToTry = << "openai/gpt-oss-120b", "llama-3.3-70b-versatile",
                      "meta-llama/llama-4-scout-17b-16e-instruct",
                      "llama-3.1-8b-instant" >>

\* GROQ_MODEL names a model outside the list: five candidates
C23_OutsideModel ==
  /\ fn = "groq"
  /\ env.GROQ_MODEL = "my-own-model"
  /\ Len(modelsToTry) = 5
  /\ modelsToTry[1] = "my-own-model"

\* the candidate lists the call has run so far: one, or for openai-gpt-oss
\* after the Together function has thrown, the Together list and then the
\* OpenRouter list
ListsRun ==
  IF selected = "openai-gpt-oss" /\ fn = "openrouter"
    THEN << TogetherModelsToTry(TogetherDefaultModel), modelsToTry >>
    ELSE << modelsToTry >>

\* the attempts made on the list that is running
AttemptsOnCurrentList ==
  IF Len(ListsRun) = 2
    THEN {k \in DOMAIN calls : \E p \in DOMAIN modelsToTry : calls[k].model = modelsToTry[p]}
    ELSE DOMAIN calls

\* at most one request is out, no model is attempted twice, and the attempts
\* on a list follow its positions one by one
SequentialAttempts ==
  /\ Cardinality(inFlight) <= 1
  /\ NoDuplicates(AttemptedModels)
  /\ inFlight \cap {calls[k].model : k \in DOMAIN calls} = {}
  /\ Cardinality(AttemptsOnCurrentList) <= Len(modelsToTry)
  /\ \A k \in AttemptsOnCurrentList :
       LET place == Cardinality({m \in AttemptsOnCurrentList : m <= k})
       IN  calls[k].model = modelsToTry[place]
  /\ selected \in DirectFamilies => Len(calls) <= Len(modelsToTry)

GatewaySettled == gwStatus \in {"returned", "threw"}

\* C24: at most one backend attempt is in flight, every candidate is attempted
\* at most once and in the order of its list, a list of N candidates gets at
\* most N attempts, and when every backend call returns or fails the gateway
\* call ends with content or with an error
C24_SequentialBoundedAttempts ==
  /\ [](InFamily => SequentialAttempts)
  /\ (gwStatus = "running") ~> GatewaySettled

\* all five candidates of a Groq list failed one after the other and the
\* call ended with an error
C24_Witness ==
  /\ fn = "groq"
  /\ gwStatus = "threw"
  /\ Len(modelsToTry) = 5
  /\ AttemptedModels = modelsToTry
  /\ inFlight = {}

\* openai-gpt-oss: three Together attempts and four OpenRouter attempts
C24_TwoLists ==
  /\ selected = "openai-gpt-oss"
  /\ gwStatus = "threw"
  /\ Len(calls) = 7

\* the gateway call ended with the "rate limit reached for all models" error
AllRateLimitedSurfaced ==
  /\ gwStatus = "threw"
  /\ gwResult.error.kind = "allRateLimited"

\* C25: the all-rate-limited error is surfaced only when every attempt of the
\* family failed with a rate limit, and its message lists every candidate
\* that was attempted
C25_AllRateLimitedOnlyWhenAll ==
  (selected \in DirectFamilies /\ AllRateLimitedSurfaced) =>
    /\ \A k \in DOMAIN calls : FailedRateLimited(k)
    /\ gwResult.error.names = AttemptedModels

\* what holds of the three functions: the last attempt failed with a rate
\* limit and the message lists the rate-limited candidates
C25_LastRateLimited ==
  (selected \in DirectFamilies /\ AllRateLimitedSurfaced) =>
    /\ Len(calls) = Len(modelsToTry)
    /\ FailedRateLimited(Len(calls))
    /\ gwResult.error.names =
         SelectSeq(AttemptedModels,
                   LAMBDA model : \E k \in DOMAIN calls :
                                    calls[k].model = model /\ FailedRateLimited(k))

\* the Together and OpenRouter functions surface it only when every attempt
\* was rate-limited
C25_AxiosFamilies ==
  (selected \in {"together-ai", "openrouter"} /\ AllRateLimitedSurfaced) =>
    /\ \A k \in DOMAIN calls : FailedRateLimited(k)
    /\ gwResult.error.names = AttemptedModels

\* Groq: the first candidate failed with a server error, the others with a
\* rate limit, and the all-rate-limited error names only the others
C25_MixedFailures ==
  /\ selected = "groq-llama"
  /\ AllRateLimitedSurfaced
  /\ Len(calls) = 4
  /\ calls[1].error = ErrOther
  /\ \A k \in 2..4 : FailedRateLimited(k)
  /\ gwResult.error.names = Tail(AttemptedModels)
-----------------------------------------------------------------------------
(* Claims about the pacing and the caching of the scraping collaborators   *)

Requests(collab) ==
  {k \in DOMAIN log : log[k].op = "request" /\ log[k].collab = collab}

\* C28: any two outbound requests of the Google Scholar collaborator are
\* issued at least 1000 ms apart, and any two of the web crawler at least
\* 500 ms apart, searches that run side by side included.
C28_RequestPacing ==
  \A collab \in {"scholar", "web"} :
    \A a, b \in Requests(collab) :
      a < b => log[b].at - log[a].at >= MinRequestInterval(collab)

\* C28, the part about Google Scholar alone: no two of its requests go out
\* less than 1000 ms apart.
C28_ScholarPacing ==
  \A a, b \in Requests("scholar") :
    a < b => log[b].at - log[a].at >= ScholarMinRequestInterval

\* C28, the part that holds: a search that found lastRequestTime less than an
\* interval old sleeps until an interval after the request it saw, and so
\* no later than an interval after the latest request.
C28_WaitsOutTheInterval ==
  \A id \in DOMAIN searches :
    searches[id].st = "sleeping" =>
      /\ searches[id].wake >= FirstInstant + MinRequestInterval(searches[id].collab)
      /\ searches[id].wake <= lastRequestTime[searches[id].collab]
                                 + MinRequestInterval(searches[id].collab)

\* two searches slept through the same interval and sent at the same instant
C28_TwoWakeTogether ==
  \E a, b \in Requests("scholar") :
    /\ a < b
    /\ log[a].at = log[b].at
    /\ Cardinality(Requests("scholar")) = 3

SearchKey(id) == SearchCacheKey(searches[id].collab, searches[id].query, 8)

Cached(collab, query) ==
  CacheKey(CacheService(collab), SearchCacheKey(collab, query, 8)) \in DOMAIN cache

CompletedWithoutError(collab, query) ==
  \E id \in DOMAIN searches :
    /\ searches[id].collab = collab
    /\ searches[id].query = query
    /\ searches[id].st = "done"
    /\ searches[id].failed = 0

\* C30: a search whose request failed and that returned the empty result
\* writes no cache entry; a cache entry exists for a query only after a
\* search for it completed without error.
C30_FailedSearchesNeverCached ==
  \A collab \in {"scholar", "web"}, query \in SearchQueryPool :
    Cached(collab, query) => CompletedWithoutError(collab, query)

\* C30 for Google Scholar alone, where it holds
C30_ScholarNeverCachesFailure ==
  \A query \in SearchQueryPool :
    Cached("scholar", query) => CompletedWithoutError("scholar", query)

\* a Google Scholar search failed, returned the empty result and left the
\* cache without an entry
C30_ScholarFailed ==
  \E id \in DOMAIN searches :
    /\ searches[id].collab = "scholar"
    /\ searches[id].st = "done"
    /\ searches[id].failed = 1
    /\ searches[id].result = EmptySearchResult
    /\ ~Cached("scholar", searches[id].query)

\* all three requests of a web search failed, the empty result is in the
\* cache, and the next search with the same query was served from it
C30_WebFailureServedFromCache ==
  \E a, b \in DOMAIN searches :
    /\ a < b
    /\ searches[a].collab = "web" /\ searches[b].collab = "web"
    /\ searches[a].st = "done" /\ searches[a].failed = 3
    /\ searches[a].result = EmptySearchResult
    /\ searches[b].st = "done" /\ searches[b].failed = 0
    /\ searches[b].result = EmptySearchResult
    /\ Cardinality(Requests("web")) = 3
=============================================================================
